---------------------------- MODULE Spec2Model ----------------------------
(***************************************************************************)
(* LCFA course schedule generator (Dalton-Muck/LCFA).                      *)
(*                                                                         *)
(* The module models                                                       *)
(*   - the time-string conflict predicate of the Ollama service            *)
(*     (timesOverlap / checkTimeConflicts),                                *)
(*   - the three generateSchedules services (OpenRouter in                 *)
(*     services/gemini.service.ts, Ollama, and the second OpenRouter       *)
(*     version), each as "send the request" / "handle the response".       *)
(*                                                                         *)
(* Strings whose characters the code inspects (time strings, day strings)  *)
(* are sequences of one-character strings; a catalog number is the         *)
(* sequence of its blank-separated words.                                  *)
(***************************************************************************)
EXTENDS Integers, Sequences, FiniteSets, TLC

VARIABLES
    \* --- conflict predicate on two time blocks (SpecOverlap) ---
    blockA, blockB,      \* the two weekly time blocks given to timesOverlap
    overlapPc,           \* "input" | "done"
    overlapResult,       \* what timesOverlap returned
    \* --- conflict check on two sections (SpecSections) ---
    sectionA, sectionB,  \* two classes (sections), each with its meetings
    sectionsPc,          \* "input" | "done"
    sectionsResult,      \* what checkTimeConflicts returned for the pair
    \* --- schedule generation (Spec) ---
    courses,             \* the Course[] argument of generateSchedules
    service,             \* which generateSchedules runs: "none" | "gemini" | "ollama" | "openrouter2"
    genPc,               \* "idle" | "requested" | "returned" | "threw"
    answer,              \* the language model's parsed answer
    schedules,           \* the Schedule[] handed to the caller
    errorMessage,        \* the message of the Error thrown, "" when none
    earlier,             \* the call before this one and how it ended (SpecRepeat)
    \* --- searchClassesAllPages (SpecSearch) ---
    searchArgs,          \* the arguments: the campuses of searchParams, and filterFn
    searchPc,            \* "idle" | "fetching" | "returned" | "threw"
    currentPage,         \* the page the loop asks for next
    hasMore,             \* the loop condition
    allClasses,          \* the classes gathered so far
    fetched,             \* the calls of searchClasses so far: page asked, response
    searchError,         \* the message of the Error thrown, "" when none
    \* --- getCurrentFallTerm (SpecTerms) ---
    termsResponse,       \* what the terms endpoint answered
    termPc,              \* "idle" | "returned" | "threw"
    termResult,          \* the { termCode, term } returned, or the message thrown
    \* --- the Course Search page (SpecPage) ---
    pageCourses,         \* the page's courses state
    selectedCourses,     \* localStorage 'selectedCourses', parsed
    searching,           \* the search in flight, if any: the courses its onCourseAdd
                         \* closed over, and the course found
    lastAdd,             \* how the last handleCourseAdd ended: "none" | "added" | "rejected"
    \* --- the schedule pages (SpecSchedules, SpecSelection) ---
    mounted,             \* the page is mounted
    instance,            \* the number of the page instance: 1 for the first mount
    isGenerating,        \* the page's isGenerating state
    error,               \* the page's error state, "" for null
    pageSchedules,       \* the page's schedules state
    abortControllerRef,  \* abortControllerRef.current: the request whose controller
                         \* it holds, 0 for null
    localStorage,        \* 'generatedSchedules', 'isGeneratingSchedules',
                         \* 'scheduleGenerationError'; << >> for a missing item
    requests,            \* the calls of generateSchedules so far: the instance that
                         \* called, how the signal was aborted, pending or settled
    courseSelections     \* the page's courseSelections: the selected class numbers,
                         \* each with its course key

overlapVars  == <<blockA, blockB, overlapPc, overlapResult>>
sectionsVars == <<sectionA, sectionB, sectionsPc, sectionsResult>>
genVars      == <<courses, service, genPc, answer, schedules, errorMessage>>
searchVars   == <<searchArgs, searchPc, currentPage, hasMore, allClasses, fetched, searchError>>
termVars     == <<termsResponse, termPc, termResult>>
pageVars     == <<pageCourses, selectedCourses, searching, lastAdd>>
scheduleVars == <<mounted, instance, isGenerating, error, pageSchedules,
                  abortControllerRef, localStorage, requests, courseSelections>>
otherVars    == <<earlier, searchVars, termVars, pageVars>>
vars         == <<overlapVars, sectionsVars, genVars, otherVars, scheduleVars>>

-----------------------------------------------------------------------------
(* Strings as character sequences *)

DigitChars == <<"0", "1", "2", "3", "4", "5", "6", "7", "8", "9">>

IsDigit(c) == \E d \in 1..10 : DigitChars[d] = c

DigitVal(c) == (CHOOSE d \in 1..10 : DigitChars[d] = c) - 1

\* parseInt(str, 10) of a string of one or two digits
ParseInt(str) ==
    IF Len(str) = 1 THEN DigitVal(str[1])
    ELSE 10 * DigitVal(str[1]) + DigitVal(str[2])

IsSpace(c) == c = " "

\* str.trim() !== ''
NotBlank(str) == \E i \in 1..Len(str) : ~IsSpace(str[i])

\* str.substring(from) with a 1-based index
Substring(str, from) == SubSeq(str, from, Len(str))

\* Array.prototype.join('') on an array of strings
RECURSIVE JoinAll(_)
JoinAll(parts) ==
    IF parts = << >> THEN << >>
    ELSE Head(parts) \o JoinAll(Tail(parts))

TBA == <<"T", "B", "A">>

-----------------------------------------------------------------------------
(* The catalog's encoding of a meeting: days as tokens, clock as "HH:MM" *)

TwoDigits(n) == <<DigitChars[(n \div 10) + 1], DigitChars[(n % 10) + 1]>>

\* a time of day (minutes since midnight) as the API's 24-hour "HH:MM"
ClockString(minutes) == TwoDigits(minutes \div 60) \o <<":">> \o TwoDigits(minutes % 60)

\* a Meeting as the Course Offerings API delivers it
MeetingOf(block) ==
    [days      |-> block.days,
     startTime |-> ClockString(block.start),
     endTime   |-> ClockString(block.end)]

\* `${daysString} ${timeString}` of the Ollama service's classesInfo and of its
\* mapToFullClassData (combinedTimes): the raw days joined, a blank, "start-end".
\* With no days the string is the time range alone.
ScheduleTime(meeting) ==
    LET daysString == JoinAll(meeting.days)
        timeString == meeting.startTime \o <<"-">> \o meeting.endTime
    IN  IF daysString # << >> THEN daysString \o <<" ">> \o timeString
        ELSE timeString

-----------------------------------------------------------------------------
(* timesOverlap (Ollama service) *)

\* Length of the day token (M|Tu|W|Th|F|S) that starts at str[i], 0 when none.
DayTokenLen(str, i) ==
    IF i > Len(str) THEN 0
    ELSE IF str[i] \in {"M", "W", "F", "S"} THEN 1
    ELSE IF str[i] = "T" /\ i + 1 <= Len(str) /\ str[i + 1] \in {"u", "h"} THEN 2
    ELSE 0

\* Index just after the longest run of day tokens that starts at str[i].
RECURSIVE DayRunEnd(_, _)
DayRunEnd(str, i) ==
    IF DayTokenLen(str, i) = 0 THEN i
    ELSE DayRunEnd(str, i + DayTokenLen(str, i))

\* Length of the match of /^((?:M|Tu|W|Th|F|S)+)\s/, blank included; 0 when the
\* string does not match. No token starts with a blank, so only the longest run
\* of tokens can be followed by one.
DayMatchLen(str) ==
    LET e == DayRunEnd(str, 1)
    IN  IF e > 1 /\ e <= Len(str) /\ IsSpace(str[e]) THEN e ELSE 0

\* extractDays: the day letters in front of the time, '' when there are none
ExtractDays(timeStr) ==
    IF DayMatchLen(timeStr) = 0 THEN << >>
    ELSE SubSeq(timeStr, 1, DayMatchLen(timeStr) - 1)

NoMatch == [ok |-> FALSE]

\* /(\d{1,2}):(\d{2})/ anchored at str[i] with an hour of hlen digits
ClockAt(str, i, hlen) ==
    IF /\ i + hlen + 2 <= Len(str)
       /\ \A k \in i..(i + hlen - 1) : IsDigit(str[k])
       /\ str[i + hlen] = ":"
       /\ IsDigit(str[i + hlen + 1])
       /\ IsDigit(str[i + hlen + 2])
    THEN [ok |-> TRUE,
          hour |-> ParseInt(SubSeq(str, i, i + hlen - 1)),
          minute |-> ParseInt(SubSeq(str, i + hlen + 1, i + hlen + 2)),
          next |-> i + hlen + 3]
    ELSE NoMatch

\* /(AM|PM)/ anchored at str[i]
MeridiemAt(str, i) ==
    IF i + 1 <= Len(str) /\ str[i] \in {"A", "P"} /\ str[i + 1] = "M"
    THEN [ok |-> TRUE, pm |-> (str[i] = "P"), next |-> i + 2]
    ELSE NoMatch

\* parseTime of the 24-hour branch
ParseTime24(hour, minute) == hour * 60 + minute

\* parseTime of the 12-hour branch
ParseTime12(hour, minute, pm) ==
    LET h == IF pm /\ hour # 12 THEN hour + 12
             ELSE IF ~pm /\ hour = 12 THEN 0
             ELSE hour
    IN  h * 60 + minute

\* /(\d{1,2}):(\d{2})-(\d{1,2}):(\d{2})/ anchored at str[i], hours of h1 and h2 digits
Range24At(str, i, h1, h2) ==
    LET a == ClockAt(str, i, h1)
    IN  IF ~a.ok THEN NoMatch
        ELSE IF ~(a.next <= Len(str) /\ str[a.next] = "-") THEN NoMatch
        ELSE LET b == ClockAt(str, a.next + 1, h2)
             IN  IF ~b.ok THEN NoMatch
                 ELSE [ok |-> TRUE,
                       start |-> ParseTime24(a.hour, a.minute),
                       end |-> ParseTime24(b.hour, b.minute)]

\* /(\d{1,2}):(\d{2})(AM|PM)-(\d{1,2}):(\d{2})(AM|PM)/ anchored at str[i]
Range12At(str, i, h1, h2) ==
    LET a == ClockAt(str, i, h1)
    IN  IF ~a.ok THEN NoMatch
        ELSE LET am == MeridiemAt(str, a.next)
             IN  IF ~am.ok THEN NoMatch
                 ELSE IF ~(am.next <= Len(str) /\ str[am.next] = "-") THEN NoMatch
                 ELSE LET b == ClockAt(str, am.next + 1, h2)
                      IN  IF ~b.ok THEN NoMatch
                          ELSE LET bm == MeridiemAt(str, b.next)
                               IN  IF ~bm.ok THEN NoMatch
                                   ELSE [ok |-> TRUE,
                                         start |-> ParseTime12(a.hour, a.minute, am.pm),
                                         end |-> ParseTime12(b.hour, b.minute, bm.pm)]

\* The greedy \d{1,2}: two digits are tried before one, for each of the two hours.
HourLengths == <<<<2, 2>>, <<2, 1>>, <<1, 2>>, <<1, 1>>>>

\* First match of the 24-hour pattern (twelveHour FALSE) or the 12-hour pattern
\* at str[i], in the order the regex engine tries the hour lengths.
RECURSIVE RangeAt(_, _, _, _)
RangeAt(str, i, twelveHour, try) ==
    IF try > Len(HourLengths) THEN NoMatch
    ELSE LET h == HourLengths[try]
             m == IF twelveHour THEN Range12At(str, i, h[1], h[2])
                  ELSE Range24At(str, i, h[1], h[2])
         IN  IF m.ok THEN m ELSE RangeAt(str, i, twelveHour, try + 1)

\* String.prototype.match without the g flag: the leftmost match
RECURSIVE SearchRange(_, _, _)
SearchRange(str, i, twelveHour) ==
    IF i > Len(str) THEN NoMatch
    ELSE IF RangeAt(str, i, twelveHour, 1).ok THEN RangeAt(str, i, twelveHour, 1)
    ELSE SearchRange(str, i + 1, twelveHour)

\* extractTimeRange: {start, end} in minutes since midnight, or null (NoMatch)
ExtractTimeRange(timeStr) ==
    LET timePart == Substring(timeStr, DayMatchLen(timeStr) + 1)
        m24 == SearchRange(timePart, 1, FALSE)
    IN  IF m24.ok THEN m24 ELSE SearchRange(timePart, 1, TRUE)

\* A day splitter that takes every letter as a day of its own.
RECURSIVE NormalizeDaysByLetter(_, _)
NormalizeDaysByLetter(daysStr, i) ==
    IF i > Len(daysStr) THEN << >>
    ELSE <<SubSeq(daysStr, i, i)>> \o NormalizeDaysByLetter(daysStr, i + 1)

\* normalizeDays: the day string as an array of day tokens, read from index i
RECURSIVE NormalizeDays(_, _)
NormalizeDays(daysStr, i) ==
    IF i > Len(daysStr) THEN << >>
    ELSE IF daysStr[i] = "T" /\ i + 1 <= Len(daysStr) /\ daysStr[i + 1] = "u"
         THEN <<(<<"T", "u">>)>> \o NormalizeDays(daysStr, i + 2)
    ELSE IF daysStr[i] = "T" /\ i + 1 <= Len(daysStr) /\ daysStr[i + 1] = "h"
         THEN <<(<<"T", "h">>)>> \o NormalizeDays(daysStr, i + 2)
    ELSE <<SubSeq(daysStr, i, i)>> \o NormalizeDays(daysStr, i + 1)

\* days1Array.some(d => days2Array.includes(d))
DaysOverlap(days1Array, days2Array) ==
    \E i \in 1..Len(days1Array) : \E j \in 1..Len(days2Array) :
        days1Array[i] = days2Array[j]

\* A range test that also counts two ranges that only touch.
RangesOverlapInclusive(range1, range2) ==
    range1.start <= range2.end /\ range2.start <= range1.end

\* timeRange1.start < timeRange2.end && timeRange2.start < timeRange1.end
RangesOverlap(range1, range2) ==
    range1.start < range2.end /\ range2.start < range1.end

\* timesOverlap(time1, time2)
TimesOverlap(time1, time2) ==
    IF time1 = << >> \/ time2 = << >> \/ time1 = TBA \/ time2 = TBA THEN FALSE
    ELSE LET days1 == ExtractDays(time1)
             days2 == ExtractDays(time2)
         IN  IF days1 = << >> \/ days2 = << >> THEN FALSE
             ELSE IF ~DaysOverlap(NormalizeDays(days1, 1), NormalizeDays(days2, 1)) THEN FALSE
             ELSE LET timeRange1 == ExtractTimeRange(time1)
                      timeRange2 == ExtractTimeRange(time2)
                  IN  IF ~timeRange1.ok \/ ~timeRange2.ok THEN FALSE
                      ELSE RangesOverlap(timeRange1, timeRange2)

\* checkTimeConflicts(classes): some pair of the classes has overlapping times
CheckTimeConflicts(classes) ==
    \E i \in 1..Len(classes) : \E j \in (i + 1)..Len(classes) :
        /\ classes[i].times # << >> /\ classes[j].times # << >>
        /\ classes[i].times # TBA /\ classes[j].times # TBA
        /\ TimesOverlap(classes[i].times, classes[j].times)

-----------------------------------------------------------------------------
(* Inputs of the conflict predicate *)

\* The day tokens of the catalog, in week order (the tokens of the day regex).
WeekDays == <<(<<"M">>), (<<"T", "u">>), (<<"W">>), (<<"T", "h">>), (<<"F">>), (<<"S">>)>>

\* A time block meets on at most this many days.
MaxDaysPerBlock == 3

\* Times of day the blocks start and end at: 09:00, 09:30, 09:31, 10:00.
TimePoints == {540, 570, 571, 600}

\* The days of a set of week positions, as the array the API delivers (week order).
RECURSIVE DaysArray(_, _)
DaysArray(positions, from) ==
    IF from > Len(WeekDays) THEN << >>
    ELSE (IF from \in positions THEN <<WeekDays[from]>> ELSE << >>)
         \o DaysArray(positions, from + 1)

DayChoices ==
    {DaysArray(p, 1) : p \in {q \in SUBSET (1..Len(WeekDays)) :
                                 Cardinality(q) >= 1 /\ Cardinality(q) <= MaxDaysPerBlock}}

\* Well-formed weekly time blocks: at least one day, start before end.
Blocks ==
    {b \in [days : DayChoices, start : TimePoints, end : TimePoints] : b.start < b.end}

DaySet(block) == {block.days[i] : i \in 1..Len(block.days)}

-----------------------------------------------------------------------------
(* Courses and classes (types/course-offerings.ts) *)

\* A ClassResult of the catalog. `blocks` is the weekly pattern the meetings
\* encode (days, minutes since midnight); the services read `meetings` only.
ClassResult(subject, catalogNumber, component, classNumber, title, blocks) ==
    [subject       |-> subject,
     catalogNumber |-> catalogNumber,
     component     |-> component,
     classNumber   |-> classNumber,
     title         |-> title,
     meetings      |-> [i \in 1..Len(blocks) |-> MeetingOf(blocks[i])],
     times         |-> << >>,
     blocks        |-> blocks]

\* A Course of the app: a requirement slot with its candidate classes.
Course(subject, catalogNumber, component, title, classes) ==
    [subject       |-> subject,
     catalogNumber |-> catalogNumber,
     component     |-> component,
     title         |-> title,
     classes       |-> classes]

MWF  == <<(<<"M">>), (<<"W">>), (<<"F">>)>>
TuTh == <<(<<"T", "u">>), (<<"T", "h">>)>>

Block(days, start, end) == [days |-> days, start |-> start, end |-> end]

\* CS 2400 with three lectures, MATH 1500 with one: only CS #101 collides with
\* MATH #201 (both MWF 09:40-10:35).
PinnedCatalog ==
    <<Course("CS", <<"2400">>, "Lecture", "Data Structures",
          <<ClassResult("CS", <<"2400">>, "LEC", 101, "Data Structures", <<Block(MWF, 580, 635)>>),
            ClassResult("CS", <<"2400">>, "LEC", 102, "Data Structures", <<Block(MWF, 515, 570)>>),
            ClassResult("CS", <<"2400">>, "LEC", 103, "Data Structures", <<Block(TuTh, 480, 560)>>)>>),
      Course("MATH", <<"1500">>, "Lecture", "Calculus",
          <<ClassResult("MATH", <<"1500">>, "LEC", 201, "Calculus", <<Block(MWF, 580, 635)>>)>>)>>

\* Two courses with one class each, both Monday 09:00-10:00.
InfeasibleCatalog ==
    <<Course("HIST", <<"1330">>, "Lecture", "World History",
          <<ClassResult("HIST", <<"1330">>, "LEC", 301, "World History", <<Block(<<(<<"M">>)>>, 540, 600)>>)>>),
      Course("ART", <<"1100">>, "Lecture", "Drawing",
          <<ClassResult("ART", <<"1100">>, "LEC", 401, "Drawing", <<Block(<<(<<"M">>)>>, 540, 600)>>)>>)>>

\* A lecture course and its lab course, as handleCourseAdd stores them: the lab
\* carries the catalog number with the " Lab" suffix and component 'Lab'.
LabCatalog ==
    <<Course("BIOS", <<"1700">>, "Lecture", "Biology",
          <<ClassResult("BIOS", <<"1700">>, "LEC", 501, "Biology", <<Block(MWF, 580, 635)>>)>>),
      Course("BIOS", <<"1700", "Lab">>, "Lab", "Biology (Lab)",
          <<ClassResult("BIOS", <<"1700">>, "LAB", 511, "Biology", <<Block(<<(<<"T", "u">>)>>, 840, 950)>>),
            ClassResult("BIOS", <<"1700">>, "LAB", 512, "Biology", <<Block(<<(<<"T", "h">>)>>, 840, 950)>>)>>)>>

\* CS 2400 with three lectures, MATH 1500 with two, none of CS colliding with
\* one of MATH: six combinations without a conflict.
WideCatalog ==
    <<Course("CS", <<"2400">>, "Lecture", "Data Structures",
          <<ClassResult("CS", <<"2400">>, "LEC", 101, "Data Structures", <<Block(MWF, 580, 635)>>),
            ClassResult("CS", <<"2400">>, "LEC", 102, "Data Structures", <<Block(MWF, 515, 570)>>),
            ClassResult("CS", <<"2400">>, "LEC", 103, "Data Structures", <<Block(TuTh, 480, 560)>>)>>),
      Course("MATH", <<"1500">>, "Lecture", "Calculus",
          <<ClassResult("MATH", <<"1500">>, "LEC", 201, "Calculus", <<Block(MWF, 780, 835)>>),
            ClassResult("MATH", <<"1500">>, "LEC", 202, "Calculus", <<Block(TuTh, 780, 860)>>)>>)>>

\* A course whose only class has no meeting (an online class).
OnlineCatalog ==
    <<Course("ART", <<"1100">>, "Lecture", "Drawing",
          <<ClassResult("ART", <<"1100">>, "LEC", 402, "Drawing", << >>)>>)>>

\* A course with one class and a course that has no class at all.
NoClassCatalog ==
    <<Course("HIST", <<"1330">>, "Lecture", "World History",
          <<ClassResult("HIST", <<"1330">>, "LEC", 301, "World History", <<Block(<<(<<"M">>)>>, 540, 600)>>)>>),
      Course("ART", <<"1100">>, "Lecture", "Drawing", << >>)>>

\* Two courses with one class each, on different days.
FixedCatalog ==
    <<Course("HIST", <<"1330">>, "Lecture", "World History",
          <<ClassResult("HIST", <<"1330">>, "LEC", 301, "World History", <<Block(<<(<<"M">>)>>, 540, 600)>>)>>),
      Course("ART", <<"1100">>, "Lecture", "Drawing",
          <<ClassResult("ART", <<"1100">>, "LEC", 401, "Drawing", <<Block(<<(<<"T", "u">>)>>, 540, 600)>>)>>)>>

\* Two courses whose sections carry the same numbers: a section number names a
\* class only together with its course.
SharedCatalog ==
    <<Course("CS", <<"3000">>, "Lecture", "Algorithms",
          <<ClassResult("CS", <<"3000">>, "LEC", 701, "Algorithms", <<Block(<<(<<"M">>)>>, 540, 600)>>),
            ClassResult("CS", <<"3000">>, "LEC", 702, "Algorithms", <<Block(<<(<<"W">>)>>, 540, 600)>>)>>),
      Course("MATH", <<"1300">>, "Lecture", "Calculus",
          <<ClassResult("MATH", <<"1300">>, "LEC", 701, "Calculus", <<Block(<<(<<"T", "u">>)>>, 540, 600)>>),
            ClassResult("MATH", <<"1300">>, "LEC", 702, "Calculus", <<Block(<<(<<"T", "h">>)>>, 540, 600)>>)>>)>>

\* The course lists the page hands to generateSchedules.
Catalogs ==
    {<< >>, PinnedCatalog, InfeasibleCatalog, LabCatalog, WideCatalog, OnlineCatalog,
     NoClassCatalog, FixedCatalog}

\* The catalog-number suffixes that name a component, in the order the code
\* tests them, and the component each stands for.
ComponentSuffixes == <<"Laboratory", "Lab", "Discussion", "Recitation", "Seminar", "Tutorial">>
SuffixComponents  == <<"Lab", "Lab", "Discussion", "Recitation", "Seminar", "Tutorial">>

\* catalogNumber.includes(' ' + suffix): a later word of the number starts with
\* the suffix ("Laboratory" also contains " Lab").
IncludesSuffix(catalogNumber, k) ==
    \E i \in 2..Len(catalogNumber) :
        \/ catalogNumber[i] = ComponentSuffixes[k]
        \/ ComponentSuffixes[k] = "Lab" /\ catalogNumber[i] = "Laboratory"

\* Index of the first suffix of the if/else-if chain the number includes, 0 if none.
SuffixIndex(catalogNumber) ==
    IF \E k \in 1..Len(ComponentSuffixes) : IncludesSuffix(catalogNumber, k)
    THEN CHOOSE k \in 1..Len(ComponentSuffixes) :
            /\ IncludesSuffix(catalogNumber, k)
            /\ \A j \in 1..(k - 1) : ~IncludesSuffix(catalogNumber, j)
    ELSE 0

\* catalogNumber.replace(/\s*<Suffix>\s*$/, '').trim() of the branch taken
CleanCatalogNumber(catalogNumber) ==
    LET k == SuffixIndex(catalogNumber)
    IN  IF k # 0 /\ catalogNumber[Len(catalogNumber)] = ComponentSuffixes[k]
        THEN SubSeq(catalogNumber, 1, Len(catalogNumber) - 1)
        ELSE catalogNumber

\* The component the catalog number names, '' when it names none.
SuffixComponent(catalogNumber) ==
    IF SuffixIndex(catalogNumber) = 0 THEN ""
    ELSE SuffixComponents[SuffixIndex(catalogNumber)]

-----------------------------------------------------------------------------
(* generateSchedules, OpenRouter (services/gemini.service.ts) *)

\* The schedules the prompt asks the model for ("Generate EXACTLY 5 UNIQUE schedules").
MaxSchedulesRequested == 5

\* Array.prototype.find / findIndex over the tests' outcomes: the index of the
\* first TRUE, 0 when there is none.
FirstTrue(flags) ==
    IF \E i \in 1..Len(flags) : flags[i]
    THEN CHOOSE i \in 1..Len(flags) : flags[i] /\ \A j \in 1..(i - 1) : ~flags[j]
    ELSE 0

\* course.classes.find((c) => c.classNumber === classNumber)
FindClass(course, classNumber) ==
    FirstTrue([i \in 1..Len(course.classes) |-> course.classes[i].classNumber = classNumber])

\* courseComponent of courseInfo: the component the prompt states for a course
PromptComponent(course) ==
    IF SuffixIndex(course.catalogNumber) # 0 THEN SuffixComponent(course.catalogNumber)
    ELSE IF course.classes # << >> /\ course.classes[1].component # ""
         THEN course.classes[1].component
    ELSE "Lecture"

\* A time extraction that looks for times in every meeting, in every service.
NoTimeStringEveryMeeting(cls, name) ==
    /\ \A m \in 1..Len(cls.meetings) :
           ~(NotBlank(cls.meetings[m].startTime) /\ NotBlank(cls.meetings[m].endTime))
    /\ ~(NotBlank(cls.times) /\ cls.times # TBA)

\* classesInfo leaves timeString empty: the first meeting lacks a start or an
\* end time (in the second OpenRouter version, every meeting does) and the
\* class's times field is empty, blank or 'TBA'.
NoTimeString(cls, name) ==
    LET timed(m) == NotBlank(cls.meetings[m].startTime) /\ NotBlank(cls.meetings[m].endTime)
    IN  /\ IF name = "openrouter2" THEN \A m \in 1..Len(cls.meetings) : ~timed(m)
           ELSE cls.meetings = << >> \/ ~timed(1)
        /\ ~(NotBlank(cls.times) /\ cls.times # TBA)

\* For each course the index of its first class without a time string, 0 if none.
ClassWithoutTime(cs, name) ==
    [i \in 1..Len(cs) |->
        FirstTrue([j \in 1..Len(cs[i].classes) |-> NoTimeString(cs[i].classes[j], name)])]

\* courseInfo throws: some class has no time string.
MissingTimeInformation(cs, name) == \E i \in 1..Len(cs) : ClassWithoutTime(cs, name)[i] # 0

\* The course of the class courses.map(...) throws for (the first in order).
CourseWithoutTime(cs, name) ==
    FirstTrue([i \in 1..Len(cs) |-> ClassWithoutTime(cs, name)[i] # 0])

\* The catalog number as the one string it is in the program.
RECURSIVE CatalogString(_)
CatalogString(catalogNumber) ==
    IF catalogNumber = << >> THEN ""
    ELSE IF Len(catalogNumber) = 1 THEN catalogNumber[1]
    ELSE catalogNumber[1] \o " " \o CatalogString(Tail(catalogNumber))

\* `Class ${cls.subject} ${cleanCatalogNumber} #${cls.classNumber} is missing required time information`
MissingTimeMessage(cls, catalogNumber) ==
    "Class " \o cls.subject \o " " \o CatalogString(catalogNumber) \o " #"
        \o ToString(cls.classNumber) \o " is missing required time information"

\* courses.find(...) of mapToFullClassData: subject and cleaned catalog number
GeminiFindCourse(cs, cls) ==
    FirstTrue([i \in 1..Len(cs) |->
        /\ cs[i].subject = cls.subject
        /\ CleanCatalogNumber(cs[i].catalogNumber) = CleanCatalogNumber(cls.catalogNumber)])

\* The ScheduleClass built from the catalog's class and the response's class.
EnrichedClass(actualClass, cls) ==
    LET fromResponse == IF cls.component # "" THEN cls.component
                        ELSE SuffixComponent(cls.catalogNumber)
    IN  [subject       |-> actualClass.subject,
         catalogNumber |-> CleanCatalogNumber(cls.catalogNumber),
         component     |-> IF fromResponse # "" THEN fromResponse ELSE actualClass.component,
         classNumber   |-> actualClass.classNumber,
         title         |-> actualClass.title]

\* A mapping that returns the model's pick with the class number it has.
GeminiMapKeepingPick(cs, cls) ==
    IF GeminiFindCourse(cs, cls) = 0 THEN << >>
    ELSE <<[subject       |-> cls.subject,
            catalogNumber |-> CleanCatalogNumber(cls.catalogNumber),
            component     |-> cls.component,
            classNumber   |-> cls.classNumber,
            title         |-> cs[GeminiFindCourse(cs, cls)].title]>>

\* mapToFullClassData: << >> for null, else the one enriched class. A class
\* number the course does not have is replaced by the course's first class.
RECURSIVE GeminiMapToFullClassData(_, _)
GeminiMapToFullClassData(cs, cls) ==
    LET ci == GeminiFindCourse(cs, cls)
    IN  IF ci = 0 THEN << >>
        ELSE LET course == cs[ci]
                 k == FindClass(course, cls.classNumber)
             IN  IF k # 0 THEN <<EnrichedClass(course.classes[k], cls)>>
                 ELSE IF course.classes = << >> THEN << >>
                 ELSE GeminiMapToFullClassData(cs,
                          [subject       |-> course.classes[1].subject,
                           catalogNumber |-> CleanCatalogNumber(cls.catalogNumber),
                           component     |-> IF cls.component # "" THEN cls.component
                                             ELSE SuffixComponent(cls.catalogNumber),
                           classNumber   |-> course.classes[1].classNumber])

\* schedule.classes.map(mapToFullClassData).filter((cls) => cls !== null)
GeminiEnrichClasses(cs, classes) ==
    JoinAll([k \in 1..Len(classes) |-> GeminiMapToFullClassData(cs, classes[k])])

\* enrichedSchedules: every schedule of the response with its classes mapped
GeminiEnrich(cs, parsed) ==
    [i \in 1..Len(parsed) |->
        [scheduleNumber |-> parsed[i].scheduleNumber,
         classes        |-> GeminiEnrichClasses(cs, parsed[i].classes)]]

-----------------------------------------------------------------------------
(* generateSchedules, Ollama *)

\* days/times/combinedTimes of mapToFullClassData: the first meeting's days
\* and, when it has a start and an end, "start-end"; else the class's times
\* field unless empty or 'TBA'; 'TBA' when there is no time
OllamaClassTimes(cls) ==
    LET hasMeeting == cls.meetings # << >>
        days  == IF hasMeeting THEN JoinAll(cls.meetings[1].days) ELSE << >>
        ofMeeting == IF /\ hasMeeting
                        /\ NotBlank(cls.meetings[1].startTime)
                        /\ NotBlank(cls.meetings[1].endTime)
                     THEN cls.meetings[1].startTime \o <<"-">> \o cls.meetings[1].endTime
                     ELSE << >>
        times == IF ofMeeting = << >> /\ cls.times # << >> /\ cls.times # TBA
                 THEN cls.times ELSE ofMeeting
    IN  IF times = << >> THEN TBA
        ELSE IF days # << >> THEN days \o <<" ">> \o times
        ELSE times

\* The ScheduleClass the Ollama service returns for a class of the catalog.
OllamaEnrichedClass(actualClass) ==
    [subject         |-> actualClass.subject,
     catalogNumber   |-> actualClass.catalogNumber,
     classNumber     |-> actualClass.classNumber,
     title           |-> actualClass.title,
     instructionType |-> actualClass.component,
     times           |-> OllamaClassTimes(actualClass)]

\* courses.findIndex((c) => c.subject === cls.subject && c.catalogNumber === cls.catalogNumber)
OllamaFindCourse(cs, cls) ==
    FirstTrue([i \in 1..Len(cs) |->
        cs[i].subject = cls.subject /\ cs[i].catalogNumber = cls.catalogNumber])

\* mapToFullClassData: << >> for null; an unknown class number gives the
\* course's first class
OllamaMapToFullClassData(cs, cls) ==
    LET ci == OllamaFindCourse(cs, cls)
    IN  IF ci = 0 THEN << >>
        ELSE LET k == FindClass(cs[ci], cls.classNumber)
             IN  IF k # 0 THEN <<OllamaEnrichedClass(cs[ci].classes[k])>>
                 ELSE IF cs[ci].classes # << >> THEN <<OllamaEnrichedClass(cs[ci].classes[1])>>
                 ELSE << >>

\* "Try to match classes to courses": the response's classes from index k on,
\* each kept when its course is known and not yet used (and, with
\* needActualClass, when the course has the class number).
RECURSIVE OllamaMatchClasses(_, _, _, _, _, _)
OllamaMatchClasses(cs, classes, k, used, fixed, needActualClass) ==
    IF k > Len(classes) THEN [classes |-> fixed, used |-> used]
    ELSE LET cls == classes[k]
             ci == OllamaFindCourse(cs, cls)
             full == OllamaMapToFullClassData(cs, cls)
             keep == /\ ci # 0
                     /\ ci \notin used
                     /\ (needActualClass => FindClass(cs[ci], cls.classNumber) # 0)
                     /\ full # << >>
         IN  IF keep
             THEN OllamaMatchClasses(cs, classes, k + 1, used \cup {ci}, fixed \o full, needActualClass)
             ELSE OllamaMatchClasses(cs, classes, k + 1, used, fixed, needActualClass)

\* The class pushed when mapping the first class fails (first branch only).
OllamaUnmappedClass(firstClass) ==
    [subject         |-> firstClass.subject,
     catalogNumber   |-> firstClass.catalogNumber,
     classNumber     |-> firstClass.classNumber,
     title           |-> firstClass.title,
     instructionType |-> firstClass.component,
     times           |-> TBA]

\* "add them from remaining courses": for every course from index i on that is
\* not used and has classes, its first class as mapToFullClassData maps it.
RECURSIVE OllamaAddMissing(_, _, _, _, _)
OllamaAddMissing(cs, i, used, fixed, pushUnmapped) ==
    IF i > Len(cs) THEN fixed
    ELSE IF i \in used \/ cs[i].classes = << >>
         THEN OllamaAddMissing(cs, i + 1, used, fixed, pushUnmapped)
    ELSE LET firstClass == cs[i].classes[1]
             full == OllamaMapToFullClassData(cs,
                         [subject       |-> firstClass.subject,
                          catalogNumber |-> firstClass.catalogNumber,
                          classNumber   |-> firstClass.classNumber])
             added == IF full # << >> THEN full
                      ELSE IF pushUnmapped THEN <<OllamaUnmappedClass(firstClass)>>
                      ELSE << >>
         IN  OllamaAddMissing(cs, i + 1, used, fixed \o added, pushUnmapped)

\* One pass of the validate-and-fix loop: the classes of the fixed schedule.
\* A schedule with the wrong number of classes keeps only classes whose number
\* its course has, and pushes a bare first class when mapping fails; the two
\* branches for the right number of classes (courseSubjects.size equal to
\* courses.length or not) run the same two loops.
OllamaFixClasses(cs, classes) ==
    LET countMismatch == Len(classes) # Len(cs)
        matched == OllamaMatchClasses(cs, classes, 1, {}, << >>, countMismatch)
    IN  OllamaAddMissing(cs, 1, matched.used, matched.classes, countMismatch)

\* validatedSchedules and validatedAndFixed
OllamaValidateAndFix(cs, parsed) ==
    [i \in 1..Len(parsed) |->
        [scheduleNumber |-> IF parsed[i].scheduleNumber # 0 THEN parsed[i].scheduleNumber ELSE i,
         classes        |-> OllamaFixClasses(cs, parsed[i].classes)]]

\* Subjects in the order localeCompare puts them.
SubjectOrder == <<"ART", "BIOS", "CS", "HIST", "MATH", "ZZZ">>

SubjectRank(subject) == CHOOSE r \in 1..Len(SubjectOrder) : SubjectOrder[r] = subject

\* keyA.localeCompare(keyB) < 0 for the keys `${subject}-${catalogNumber}`: by
\* subject, then the shorter of two catalog numbers that agree on their words.
SortKeyLess(a, b) ==
    \/ SubjectRank(a.subject) < SubjectRank(b.subject)
    \/ /\ a.subject = b.subject
       /\ Len(a.catalogNumber) < Len(b.catalogNumber)
       /\ SubSeq(b.catalogNumber, 1, Len(a.catalogNumber)) = a.catalogNumber

\* One class put into an array already sorted, behind the classes not after it.
RECURSIVE InsertByKey(_, _)
InsertByKey(sorted, cls) ==
    IF sorted = << >> THEN <<cls>>
    ELSE IF SortKeyLess(cls, Head(sorted)) THEN <<cls>> \o sorted
    ELSE <<Head(sorted)>> \o InsertByKey(Tail(sorted), cls)

\* schedule.classes.sort(...) by course key (Array.prototype.sort is stable)
RECURSIVE SortByKey(_)
SortByKey(classes) ==
    IF classes = << >> THEN << >>
    ELSE InsertByKey(SortByKey(SubSeq(classes, 1, Len(classes) - 1)), classes[Len(classes)])

\* .map(c => c.classNumber).join(',')
ClassNumbers(classes) == [k \in 1..Len(classes) |-> classes[k].classNumber]

\* uniqueSchedules: each schedule sorted in place, kept unless an earlier one
\* has the same key
RECURSIVE OllamaUnique(_, _, _, _)
OllamaUnique(fixed, i, seenScheduleKeys, unique) ==
    IF i > Len(fixed) THEN unique
    ELSE LET sorted == SortByKey(fixed[i].classes)
             scheduleKey == ClassNumbers(sorted)
         IN  IF scheduleKey \notin seenScheduleKeys
             THEN OllamaUnique(fixed, i + 1, seenScheduleKeys \cup {scheduleKey},
                               Append(unique, [scheduleNumber |-> fixed[i].scheduleNumber,
                                               classes |-> sorted]))
             ELSE OllamaUnique(fixed, i + 1, seenScheduleKeys, unique)

-----------------------------------------------------------------------------
(* generateSchedules, OpenRouter, second version *)

\* One number put into an ascending array.
RECURSIVE InsertNumber(_, _)
InsertNumber(sorted, n) ==
    IF sorted = << >> THEN <<n>>
    ELSE IF n < Head(sorted) THEN <<n>> \o sorted
    ELSE <<Head(sorted)>> \o InsertNumber(Tail(sorted), n)

\* .sort((a, b) => a - b)
RECURSIVE SortNumbers(_)
SortNumbers(numbers) ==
    IF numbers = << >> THEN << >>
    ELSE InsertNumber(SortNumbers(Tail(numbers)), Head(numbers))

\* uniqueSchedules of the response: a schedule is dropped when an earlier one
\* has the same sorted class numbers
RECURSIVE OpenRouterUnique(_, _, _, _)
OpenRouterUnique(parsed, i, seenClassNumberSets, unique) ==
    IF i > Len(parsed) THEN unique
    ELSE LET classNumbers == SortNumbers(ClassNumbers(parsed[i].classes))
         IN  IF classNumbers \notin seenClassNumberSets
             THEN OpenRouterUnique(parsed, i + 1, seenClassNumberSets \cup {classNumbers},
                                   Append(unique, parsed[i]))
             ELSE OpenRouterUnique(parsed, i + 1, seenClassNumberSets, unique)

\* finalSchedules: renumbered 1, 2, ... in order
Renumber(unique) ==
    [i \in 1..Len(unique) |-> [scheduleNumber |-> i, classes |-> unique[i].classes]]

\* comp.toLowerCase().trim() for the component names in use
LowerCase(comp) ==
    CASE comp \in {"LEC", "Lec", "lec"} -> "lec"
      [] comp \in {"Lecture", "LECTURE", "lecture"} -> "lecture"
      [] comp \in {"LAB", "Lab", "lab"} -> "lab"
      [] comp \in {"Laboratory", "LABORATORY", "laboratory"} -> "laboratory"
      [] comp = "Discussion" -> "discussion"
      [] comp = "Recitation" -> "recitation"
      [] comp = "Seminar" -> "seminar"
      [] comp = "Tutorial" -> "tutorial"
      [] OTHER -> comp

\* normalizeComponent
NormalizeComponent(comp) ==
    LET normalized == LowerCase(comp)
    IN  IF normalized \in {"lec", "lecture"} THEN "lecture"
        ELSE IF normalized \in {"lab", "laboratory"} THEN "lab"
        ELSE normalized

\* courses.find(...) of the second version: subject, cleaned catalog number and
\* component, a missing component standing for a lecture
OpenRouterFindCourse(cs, cls) ==
    LET component == IF cls.component # "" THEN cls.component
                     ELSE SuffixComponent(cls.catalogNumber)
        clsComponentNormalized == NormalizeComponent(component)
    IN  FirstTrue([i \in 1..Len(cs) |->
            LET cComponent == IF cs[i].component # "" THEN cs[i].component
                              ELSE SuffixComponent(cs[i].catalogNumber)
                cComponentNormalized == NormalizeComponent(cComponent)
            IN  /\ cs[i].subject = cls.subject
                /\ CleanCatalogNumber(cs[i].catalogNumber) = CleanCatalogNumber(cls.catalogNumber)
                /\ \/ clsComponentNormalized = cComponentNormalized
                   \/ clsComponentNormalized = "" /\ cComponentNormalized = "lecture"
                   \/ clsComponentNormalized = "lecture" /\ cComponentNormalized = ""])

\* mapToFullClassData of the second version
RECURSIVE OpenRouterMapToFullClassData(_, _)
OpenRouterMapToFullClassData(cs, cls) ==
    LET ci == OpenRouterFindCourse(cs, cls)
    IN  IF ci = 0 THEN << >>
        ELSE LET course == cs[ci]
                 k == FindClass(course, cls.classNumber)
             IN  IF k # 0 THEN <<EnrichedClass(course.classes[k], cls)>>
                 ELSE IF course.classes = << >> THEN << >>
                 ELSE OpenRouterMapToFullClassData(cs,
                          [subject       |-> course.classes[1].subject,
                           catalogNumber |-> CleanCatalogNumber(cls.catalogNumber),
                           component     |-> IF cls.component # "" THEN cls.component
                                             ELSE SuffixComponent(cls.catalogNumber),
                           classNumber   |-> course.classes[1].classNumber])

\* schedule.classes.map(mapToFullClassData).filter((cls) => cls !== null)
OpenRouterEnrichClasses(cs, classes) ==
    JoinAll([k \in 1..Len(classes) |-> OpenRouterMapToFullClassData(cs, classes[k])])

\* enrichedSchedules of the second version: duplicates dropped, renumbered, mapped
OpenRouterEnrich(cs, parsed) ==
    LET schedulesToUse == Renumber(OpenRouterUnique(parsed, 1, {}, << >>))
    IN  [i \in 1..Len(schedulesToUse) |->
            [scheduleNumber |-> schedulesToUse[i].scheduleNumber,
             classes        |-> OpenRouterEnrichClasses(cs, schedulesToUse[i].classes)]]

-----------------------------------------------------------------------------
(* The language model's answer *)

\* Schedules in an answer whose schedules are built class by class.
MaxShortLen == 2

\* Classes in a schedule built class by class.
MaxClassesPerSchedule == 2

\* Schedules in an answer of different one-class-per-course schedules.
MaxAnswerLen == 6

\* Class numbers the model may invent (no course has them).
InventedClassNumbers == {999}

\* The message of the error object the prompt tells the model to answer with.
CannotGenerate ==
    "Cannot generate schedules without overlapping classes. All possible class combinations result in time conflicts."

\* The classes the model may name for course i: the course's subject, its
\* catalog number as stored or cleaned, the component stated in the prompt, and
\* a class number of the course or an invented one.
CourseEntries(cs, i) ==
    {[subject       |-> cs[i].subject,
      catalogNumber |-> cat,
      component     |-> PromptComponent(cs[i]),
      classNumber   |-> n] :
        cat \in {cs[i].catalogNumber, CleanCatalogNumber(cs[i].catalogNumber)},
        n \in {cs[i].classes[k].classNumber : k \in 1..Len(cs[i].classes)}
               \cup InventedClassNumbers}

\* A class of a course that was not asked for.
UnknownEntry ==
    [subject |-> "ZZZ", catalogNumber |-> <<"1000">>, component |-> "Lecture", classNumber |-> 901]

AnswerEntries(cs) == UNION {CourseEntries(cs, i) : i \in 1..Len(cs)} \cup {UnknownEntry}

\* Sequences over S of length lo..hi.
SeqsOf(S, lo, hi) == UNION {[1..n -> S] : n \in lo..hi}

\* Sequences of n different elements of S.
RECURSIVE DistinctSeqs(_, _)
DistinctSeqs(S, n) ==
    IF n = 0 THEN {<< >>}
    ELSE {Append(q, x) : <<q, x>> \in
             {qx \in DistinctSeqs(S, n - 1) \X S : \A k \in 1..Len(qx[1]) : qx[1][k] # qx[2]}}

\* Schedules with one class of the course's own numbers for every course, in
\* course order.
CompleteClassLists(cs) ==
    {classes \in [1..Len(cs) -> AnswerEntries(cs)] :
        \A i \in 1..Len(cs) :
            /\ classes[i] \in CourseEntries(cs, i)
            /\ classes[i].classNumber \notin InventedClassNumbers}

\* The class lists of the answers: short ones of any classes (repeated ones
\* included), long ones of complete schedules that all differ.
ClassListsOf(cs) ==
    SeqsOf(SeqsOf(AnswerEntries(cs), 0, MaxClassesPerSchedule), 0, MaxShortLen)
        \cup UNION {DistinctSeqs(CompleteClassLists(cs), n) : n \in (MaxShortLen + 1)..MaxAnswerLen}

\* How the model numbers its schedules; 0 stands for a missing scheduleNumber.
Numberings == {"sequential", "repeated", "absent"}

ScheduleNumberOf(numbering, i) ==
    CASE numbering = "sequential" -> i
      [] numbering = "repeated"   -> 1
      [] numbering = "absent"     -> 0

\* JSON.parse of the response text: an array of schedules, the error object,
\* or text that is not JSON.
Answers(cs) ==
    {[kind |-> "array",
      schedules |-> [i \in 1..Len(lists) |->
                        [scheduleNumber |-> ScheduleNumberOf(numbering, i),
                         classes        |-> lists[i]]]] :
        lists \in ClassListsOf(cs), numbering \in Numberings}
    \cup {[kind |-> "error", message |-> CannotGenerate], [kind |-> "invalid"]}

-----------------------------------------------------------------------------
(* Values of the variables a specification does not use *)

NoBlock == [days |-> << >>, start |-> 0, end |-> 0]
NoSection == [classNumber |-> 0, meetings |-> << >>]

OverlapIdle ==
    /\ blockA = NoBlock /\ blockB = NoBlock
    /\ overlapPc = "off" /\ overlapResult = FALSE

SectionsIdle ==
    /\ sectionA = NoSection /\ sectionB = NoSection
    /\ sectionsPc = "off" /\ sectionsResult = FALSE

GenIdle ==
    /\ courses = << >> /\ service = "none" /\ genPc = "off"
    /\ answer = [kind |-> "none"] /\ schedules = << >> /\ errorMessage = ""

NoCall == [service |-> "none"]

\* The variables of the course-offerings service and of the page.
OfferingsIdle ==
    /\ searchArgs = [campuses |-> << >>, filterFn |-> "none"]
    /\ searchPc = "off" /\ currentPage = 0 /\ hasMore = FALSE
    /\ allClasses = << >> /\ fetched = << >> /\ searchError = ""
    /\ termsResponse = [ok |-> FALSE] /\ termPc = "off" /\ termResult = [pc |-> "off"]
    /\ pageCourses = << >> /\ selectedCourses = << >>
    /\ searching = << >> /\ lastAdd = "off"

\* localStorage without an item of the schedule pages.
NoItems == [generatedSchedules |-> << >>, isGeneratingSchedules |-> FALSE,
            scheduleGenerationError |-> << >>]

\* The variables of the schedule pages.
ScheduleIdle ==
    /\ mounted = FALSE /\ instance = 0 /\ isGenerating = FALSE /\ error = ""
    /\ pageSchedules = << >> /\ abortControllerRef = 0
    /\ localStorage = NoItems /\ requests = << >> /\ courseSelections = {}

OtherIdle == earlier = NoCall /\ OfferingsIdle /\ ScheduleIdle

-----------------------------------------------------------------------------
(* Schedule generation: the request is sent, then the response is handled *)

NoAnswer == [kind |-> "none"]

\* How a call ends: throw new Error(message), or return result.
Thrown(message) == [pc |-> "threw", schedules |-> << >>, errorMessage |-> message]
Returns(result) == [pc |-> "returned", schedules |-> result, errorMessage |-> ""]

\* A caller that adds the outcome's schedules to those it already holds.
FinishAppending(outcome) ==
    /\ genPc' = outcome.pc
    /\ errorMessage' = outcome.errorMessage
    /\ schedules' = schedules \o outcome.schedules

\* generateSchedules ends and its caller has the outcome
Finish(outcome) ==
    /\ genPc' = outcome.pc
    /\ errorMessage' = outcome.errorMessage
    /\ schedules' = outcome.schedules

ApiKeyRequired ==
    "OpenRouter API key is required. Please set VITE_OPENROUTER_API_KEY in your .env file."

\* The status of a response that is not ok.
HttpStatuses == {500}

\* What fetch and JSON.parse can deliver, for each course list.
Responses ==
    [cs \in Catalogs |->
        Answers(cs) \cup {[kind |-> "http", status |-> st] : st \in HttpStatuses}]

\* The guards before the request: the message thrown, "" when the request goes
\* out. The OpenRouter services need an apiKey and name the cleaned catalog
\* number of the course; the Ollama service names the class's own.
GuardMessage(cs, name, apiKey) ==
    IF cs = << >> THEN "No courses provided"
    ELSE IF name # "ollama" /\ ~apiKey THEN ApiKeyRequired
    ELSE IF MissingTimeInformation(cs, name)
         THEN LET i == CourseWithoutTime(cs, name)
                  cls == cs[i].classes[ClassWithoutTime(cs, name)[i]]
              IN  MissingTimeMessage(cls, IF name # "ollama"
                                          THEN CleanCatalogNumber(cs[i].catalogNumber)
                                          ELSE cls.catalogNumber)
    ELSE ""

\* generateSchedules up to the fetch: the guards, then the request is out
SendRequest(name) ==
    /\ service' = name
    /\ \E apiKey \in BOOLEAN :
          LET message == GuardMessage(courses, name, apiKey)
          IN  IF message # "" THEN Finish(Thrown(message))
              ELSE genPc' = "requested" /\ UNCHANGED <<schedules, errorMessage>>
    /\ UNCHANGED <<courses, answer, overlapVars, sectionsVars, otherVars, scheduleVars>>

\* generateSchedules (services/gemini.service.ts) is called
GeminiGenerateSchedules ==
    /\ genPc = "idle"
    /\ SendRequest("gemini")

\* generateSchedules (Ollama) is called
OllamaGenerateSchedules ==
    /\ genPc = "idle"
    /\ SendRequest("ollama")

\* generateSchedules (second OpenRouter version) is called
OpenRouterGenerateSchedules ==
    /\ genPc = "idle"
    /\ SendRequest("openrouter2")

\* The response of the OpenRouter services up to the array of schedules: the
\* message thrown, "" when the response is an array.
OpenRouterResponseMessage(response) ==
    CASE response.kind = "http"    -> "HTTP error! status: " \o ToString(response.status) \o ", message: "
      [] response.kind = "invalid" -> "Invalid JSON response from OpenRouter"
      [] response.kind = "error"   -> response.message
      [] OTHER                     -> ""

AllDuplicates ==
    "All generated schedules were duplicates. Please try generating schedules again or check if there are enough unique class combinations available."

\* The catch block of the Ollama service.
FailedToGenerate(message) == "Failed to generate schedules: " \o message

\* generateSchedules from the response on: how the call of the service ends
HandleResponse(name, cs, response) ==
    IF name = "ollama"
    THEN CASE response.kind = "http" ->
                Thrown(FailedToGenerate("HTTP error! status: " \o ToString(response.status)))
           [] response.kind = "invalid" ->
                Thrown(FailedToGenerate("Invalid JSON response from Ollama"))
           [] response.kind = "error" ->
                Thrown(FailedToGenerate(response.message))
           [] OTHER ->
                LET validatedAndFixed == OllamaValidateAndFix(cs, response.schedules)
                    uniqueSchedules == OllamaUnique(validatedAndFixed, 1, {}, << >>)
                IN  IF uniqueSchedules = << >>
                    THEN Thrown(FailedToGenerate(AllDuplicates))
                    ELSE Returns(uniqueSchedules)
    ELSE IF OpenRouterResponseMessage(response) # ""
         THEN Thrown(OpenRouterResponseMessage(response))
         ELSE IF name = "gemini"
              THEN Returns(GeminiEnrich(cs, response.schedules))
              ELSE Returns(OpenRouterEnrich(cs, response.schedules))

\* generateSchedules (services/gemini.service.ts) from the response on
GeminiHandleResponse ==
    /\ genPc = "requested" /\ service = "gemini"
    /\ \E response \in Responses[courses] :
          /\ answer' = response
          /\ Finish(HandleResponse("gemini", courses, response))
    /\ UNCHANGED <<courses, service, overlapVars, sectionsVars, otherVars, scheduleVars>>

\* generateSchedules (second version) from the response on
OpenRouterHandleResponse ==
    /\ genPc = "requested" /\ service = "openrouter2"
    /\ \E response \in Responses[courses] :
          /\ answer' = response
          /\ Finish(HandleResponse("openrouter2", courses, response))
    /\ UNCHANGED <<courses, service, overlapVars, sectionsVars, otherVars, scheduleVars>>

\* generateSchedules (Ollama) from the response on
OllamaHandleResponse ==
    /\ genPc = "requested" /\ service = "ollama"
    /\ \E response \in Responses[courses] :
          /\ answer' = response
          /\ Finish(HandleResponse("ollama", courses, response))
    /\ UNCHANGED <<courses, service, overlapVars, sectionsVars, otherVars, scheduleVars>>

Init ==
    /\ courses \in Catalogs
    /\ service = "none" /\ genPc = "idle" /\ answer = NoAnswer
    /\ schedules = << >> /\ errorMessage = ""
    /\ OverlapIdle /\ SectionsIdle /\ OtherIdle

Next ==
    \/ GeminiGenerateSchedules
    \/ GeminiHandleResponse
    \/ OllamaGenerateSchedules
    \/ OllamaHandleResponse
    \/ OpenRouterGenerateSchedules
    \/ OpenRouterHandleResponse

Spec == Init /\ [][Next]_vars

-----------------------------------------------------------------------------
(* Specification of the conflict predicate: two blocks in, timesOverlap out *)

InitOverlap ==
    /\ blockA \in Blocks /\ blockB \in Blocks
    /\ overlapPc = "input" /\ overlapResult = FALSE
    /\ SectionsIdle /\ GenIdle /\ OtherIdle

\* timesOverlap on the two blocks' time strings, as the Ollama service writes them
CallTimesOverlap ==
    /\ overlapPc = "input"
    /\ overlapResult' = TimesOverlap(ScheduleTime(MeetingOf(blockA)),
                                     ScheduleTime(MeetingOf(blockB)))
    /\ overlapPc' = "done"
    /\ UNCHANGED <<blockA, blockB, sectionsVars, genVars, otherVars, scheduleVars>>

NextOverlap == CallTimesOverlap

SpecOverlap == InitOverlap /\ [][NextOverlap]_vars

\* Time blocks as data may hold them: with or without a day, start before, at or
\* after end.
AnyBlocks ==
    [days : {<< >>, <<(<<"M">>)>>, <<(<<"T", "u">>)>>}, start : TimePoints, end : TimePoints]

InitAnyOverlap ==
    /\ blockA \in AnyBlocks /\ blockB \in AnyBlocks
    /\ overlapPc = "input" /\ overlapResult = FALSE
    /\ SectionsIdle /\ GenIdle /\ OtherIdle

\* timesOverlap on any two blocks
SpecAnyOverlap == InitAnyOverlap /\ [][NextOverlap]_vars

-----------------------------------------------------------------------------
(* Specification of the conflict check on two sections: checkTimeConflicts on   *)
(* the two classes as the Ollama service's mapToFullClassData builds them      *)

\* A section has at most this many meetings.
MaxMeetings == 2

\* The meeting blocks of the sections: one day each, 09:00-09:31 or 09:30-10:00.
SectionBlocks ==
    {Block(<<d>>, iv[1], iv[2]) :
        d \in {<<"M">>, <<"T", "u">>, <<"T", "h">>},
        iv \in {<<540, 571>>, <<570, 600>>}}

\* The classes with this class number and 1..MaxMeetings meetings.
Sections(subject, classNumber) ==
    {ClassResult(subject, <<"2400">>, "LEC", classNumber, "Data Structures", blocks) :
        blocks \in SeqsOf(SectionBlocks, 1, MaxMeetings)}

InitSections ==
    /\ sectionA \in Sections("CS", 101)
    /\ sectionB \in Sections("MATH", 201)
    /\ sectionsPc = "input" /\ sectionsResult = FALSE
    /\ OverlapIdle /\ GenIdle /\ OtherIdle

CallCheckTimeConflicts ==
    /\ sectionsPc = "input"
    /\ sectionsResult' = CheckTimeConflicts(<<OllamaEnrichedClass(sectionA),
                                              OllamaEnrichedClass(sectionB)>>)
    /\ sectionsPc' = "done"
    /\ UNCHANGED <<sectionA, sectionB, overlapVars, genVars, otherVars, scheduleVars>>

NextSections == CallCheckTimeConflicts

SpecSections == InitSections /\ [][NextSections]_vars

-----------------------------------------------------------------------------
(* The vocabulary of the properties: conflicts as the weekly patterns define them *)

\* Two blocks share a weekday and their half-open time intervals intersect.
BlocksConflict(a, b) ==
    /\ DaySet(a) \cap DaySet(b) # {}
    /\ a.start < b.end
    /\ b.start < a.end

\* Some meeting block of one section conflicts with some meeting block of the other.
SectionsConflict(s1, s2) ==
    \E i \in 1..Len(s1.blocks) : \E j \in 1..Len(s2.blocks) :
        BlocksConflict(s1.blocks[i], s2.blocks[j])

-----------------------------------------------------------------------------
(* Properties of the conflict predicate *)

\* C8: timesOverlap returns true exactly when the two blocks share at least one
\* weekday and a.start < b.end and b.start < a.end; in particular blocks on a
\* common day that only touch do not conflict, and a one-minute overlap does.
C8_OverlapIffSharedDayAndIntersect ==
    overlapPc = "done" => (overlapResult <=> BlocksConflict(blockA, blockB))

\* C8 witness: two blocks on a common day that overlap by one minute
\* (09:00-09:31 and 09:30-10:00) were found to conflict.
C8_OneMinuteOverlapSeen ==
    /\ overlapPc = "done"
    /\ DaySet(blockA) \cap DaySet(blockB) # {}
    /\ blockA.start = 540 /\ blockA.end = 571
    /\ blockB.start = 570 /\ blockB.end = 600
    /\ overlapResult

\* C9: two blocks with disjoint day sets never conflict, whatever their times;
\* Tu and Th are days of their own: TuTh against Tu or against Th conflicts when
\* the times intersect, Tu against Th never does.
C9_DisjointDaysNeverConflict ==
    overlapPc = "done" =>
        /\ (DaySet(blockA) \cap DaySet(blockB) = {} => ~overlapResult)
        /\ (/\ blockA.days = TuTh
            /\ blockB.days \in {<<(<<"T", "u">>)>>, <<(<<"T", "h">>)>>}
            /\ blockA.start < blockB.end /\ blockB.start < blockA.end
            => overlapResult)

\* C9 witness: a Tu block and a Th block with the same times were compared and
\* found not to conflict.
C9_TuAgainstThSeen ==
    /\ overlapPc = "done"
    /\ blockA.days = <<(<<"T", "u">>)>>
    /\ blockB.days = <<(<<"T", "h">>)>>
    /\ blockA.start = blockB.start /\ blockA.end = blockB.end
    /\ ~overlapResult

\* C10: two sections conflict iff some meeting block of the first conflicts with
\* some meeting block of the second; every meeting takes part, not only the first.
C10_SectionsConflictIffSomeMeetingsDo ==
    sectionsPc = "done" => (sectionsResult <=> SectionsConflict(sectionA, sectionB))

-----------------------------------------------------------------------------
(* Properties of the schedules generateSchedules returns *)

\* The class numbers of course i.
CandidateNumbers(cs, i) == {cs[i].classes[k].classNumber : k \in 1..Len(cs[i].classes)}

\* The course a class number belongs to (class numbers are unique in a catalog).
CourseOf(cs, classNumber) ==
    CHOOSE i \in 1..Len(cs) : classNumber \in CandidateNumbers(cs, i)

\* The catalog's class with a class number.
SectionOf(cs, classNumber) ==
    LET i == CourseOf(cs, classNumber)
    IN  cs[i].classes[FindClass(cs[i], classNumber)]

\* The picks of a returned schedule: for each of its classes, the course and the
\* class number.
Picks(cs, schedule) ==
    {<<CourseOf(cs, schedule.classes[k].classNumber), schedule.classes[k].classNumber>> :
        k \in 1..Len(schedule.classes)}

\* The one-class-per-course combinations without a conflict between two courses,
\* each as the sequence of its class numbers in course order.
ConflictFreeCombinations(cs) ==
    {p \in [1..Len(cs) -> UNION {CandidateNumbers(cs, i) : i \in 1..Len(cs)}] :
        /\ \A i \in 1..Len(cs) : p[i] \in CandidateNumbers(cs, i)
        /\ \A i, j \in 1..Len(cs) :
              i < j => ~SectionsConflict(SectionOf(cs, p[i]), SectionOf(cs, p[j]))}

PicksOfCombination(p) == {<<i, p[i]>> : i \in 1..Len(p)}

Returned == genPc = "returned"

\* C1: in every returned schedule, two picks of two different courses never
\* conflict, whatever the model answered.
C1_NoCrossCourseConflict ==
    Returned =>
        \A n \in 1..Len(schedules) :
            \A k, l \in 1..Len(schedules[n].classes) :
                LET a == schedules[n].classes[k].classNumber
                    b == schedules[n].classes[l].classNumber
                IN  CourseOf(courses, a) # CourseOf(courses, b) =>
                        ~SectionsConflict(SectionOf(courses, a), SectionOf(courses, b))

\* C2: no two schedules of a returned list have identical picks.
C2_NoTwoSchedulesAlike ==
    Returned =>
        \A m, n \in 1..Len(schedules) :
            m < n => Picks(courses, schedules[m]) # Picks(courses, schedules[n])

\* C3: every returned schedule has exactly one pick per input course, a class of
\* that course's own candidates: no course missing, none twice.
C3_OnePickPerCourse ==
    Returned =>
        \A n \in 1..Len(schedules) :
            /\ Len(schedules[n].classes) = Len(courses)
            /\ \A i \in 1..Len(courses) :
                  Cardinality({k \in 1..Len(schedules[n].classes) :
                      schedules[n].classes[k].classNumber \in CandidateNumbers(courses, i)}) = 1

\* C4: a course with exactly one candidate class has that class as its pick in
\* every returned schedule.
C4_SingleCandidatePinned ==
    Returned =>
        \A i \in 1..Len(courses) :
            Len(courses[i].classes) = 1 =>
                \A n \in 1..Len(schedules) :
                    <<i, courses[i].classes[1].classNumber>> \in Picks(courses, schedules[n])

\* C5: when no conflict-free one-class-per-course combination exists and the
\* model has answered (an array or its error object), generateSchedules returns
\* normally with zero schedules: no error, no conflicting or partial schedule.
C5_InfeasibleReturnsNoSchedules ==
    /\ genPc \in {"returned", "threw"}
    /\ answer.kind \in {"array", "error"}
    /\ ConflictFreeCombinations(courses) = {}
    => Returned /\ schedules = << >>

\* C6: generateSchedules never returns more schedules than the five asked for.
C6_AtMostFiveSchedules ==
    Returned => Len(schedules) <= MaxSchedulesRequested

\* C7: when fewer conflict-free combinations exist than schedules were asked
\* for, generateSchedules returns exactly those combinations, each once; for
\* CS 2400 (#101, #102, #103) and MATH 1500 (#201), where only #101 conflicts
\* with #201, exactly {#102, #201} and {#103, #201}.
C7_ExactlyTheConflictFreeCombinations ==
    Returned /\ Cardinality(ConflictFreeCombinations(courses)) < MaxSchedulesRequested =>
        /\ Len(schedules) = Cardinality(ConflictFreeCombinations(courses))
        /\ {Picks(courses, schedules[n]) : n \in 1..Len(schedules)}
              = {PicksOfCombination(p) : p \in ConflictFreeCombinations(courses)}

-----------------------------------------------------------------------------
(* Specification of two calls in a row: generateSchedules is called, ends, and  *)
(* is called again with the same courses in the same or another order          *)

\* The course lists with the courses of cs, in every order.
Reordered(cs) == {[i \in 1..Len(cs) |-> cs[f[i]]] : f \in Permutations(1..Len(cs))}

\* The model's answers to the two calls: up to MaxShortLen schedules with one
\* class of every course, named as the prompt names it, the courses in any
\* order, numbered 1, 2, ...; or the error object.
RepeatAnswers(cs) ==
    {[kind |-> "array",
      schedules |-> [i \in 1..Len(lists) |-> [scheduleNumber |-> i, classes |-> lists[i]]]] :
        lists \in SeqsOf(UNION {{classes \in CompleteClassLists(p) :
                                    \A i \in 1..Len(p) :
                                        classes[i].catalogNumber = p[i].catalogNumber} :
                                p \in Reordered(cs)},
                         0, MaxShortLen)}
    \cup {[kind |-> "error", message |-> CannotGenerate]}

InitRepeat ==
    /\ courses \in {InfeasibleCatalog, LabCatalog, FixedCatalog}
    /\ service = "none" /\ genPc = "idle" /\ answer = NoAnswer
    /\ schedules = << >> /\ errorMessage = ""
    /\ earlier = NoCall /\ ScheduleIdle
    /\ OverlapIdle /\ SectionsIdle /\ OfferingsIdle

\* generateSchedules of one of the services, from the call to its end; the
\* second call is to the service of the first
CallGenerateSchedules ==
    /\ genPc = "idle"
    /\ \E name \in IF earlier = NoCall THEN {"gemini", "ollama", "openrouter2"}
                     ELSE {earlier.service},
          apiKey \in BOOLEAN, response \in RepeatAnswers(courses) :
          /\ service' = name
          /\ IF GuardMessage(courses, name, apiKey) # ""
             THEN /\ answer' = NoAnswer
                  /\ Finish(Thrown(GuardMessage(courses, name, apiKey)))
             ELSE /\ answer' = response
                  /\ Finish(HandleResponse(name, courses, response))
    /\ UNCHANGED <<courses, earlier, overlapVars, sectionsVars, scheduleVars, searchVars, termVars, pageVars>>

\* The caller keeps what the call gave and calls again
CallAgain ==
    /\ genPc \in {"returned", "threw"} /\ earlier = NoCall
    /\ earlier' = [service |-> service, courses |-> courses, answer |-> answer,
                   pc |-> genPc, schedules |-> schedules, errorMessage |-> errorMessage]
    /\ courses' \in Reordered(courses)
    /\ genPc' = "idle"
    /\ UNCHANGED <<service, answer, schedules, errorMessage,
                   overlapVars, sectionsVars, scheduleVars, searchVars, termVars, pageVars>>

SpecRepeat == InitRepeat /\ [][CallGenerateSchedules \/ CallAgain]_vars

\* One call with courses whose section numbers are not unique across courses.
InitShared ==
    /\ courses = SharedCatalog
    /\ service = "none" /\ genPc = "idle" /\ answer = NoAnswer
    /\ schedules = << >> /\ errorMessage = ""
    /\ earlier = NoCall /\ ScheduleIdle
    /\ OverlapIdle /\ SectionsIdle /\ OfferingsIdle

SpecShared == InitShared /\ [][CallGenerateSchedules]_vars

\* Meetings of a class as the API delivers them: none, one with times, one
\* without, one whose start is blank, and an untimed one before a timed one.
MeetingChoices ==
    LET timed   == MeetingOf(Block(<<(<<"M">>)>>, 540, 600))
        untimed == [days |-> <<(<<"M">>)>>, startTime |-> << >>, endTime |-> << >>]
        blank   == [timed EXCEPT !.startTime = <<" ", " ">>]
    IN  {<< >>, <<timed>>, <<untimed>>, <<blank>>, <<untimed, timed>>}

\* The times field of a class: empty, blank, 'TBA' or a time range.
TimesChoices == {<< >>, <<" ">>, TBA, <<"W">> \o <<" ">> \o ClockString(540) \o <<"-">> \o ClockString(600)}

\* Course lists of one course with a class that has times and a class n of any
\* meetings and times field.
TimeCatalogs ==
    {<<Course("HIST", <<"1330">>, "Lecture", "World History",
           <<ClassResult("HIST", <<"1330">>, "LEC", 301, "World History", <<Block(<<(<<"F">>)>>, 540, 600)>>),
             [ClassResult("HIST", <<"1330">>, "LEC", 302, "World History", << >>)
                 EXCEPT !.meetings = meetings, !.times = times]>>)>> :
        meetings \in MeetingChoices, times \in TimesChoices}

\* One call with classes of any meetings and times.
InitTimes ==
    /\ courses \in TimeCatalogs
    /\ service = "none" /\ genPc = "idle" /\ answer = NoAnswer
    /\ schedules = << >> /\ errorMessage = ""
    /\ earlier = NoCall /\ ScheduleIdle
    /\ OverlapIdle /\ SectionsIdle /\ OfferingsIdle

SpecTimes == InitTimes /\ [][CallGenerateSchedules]_vars

MaxPicks == 2

\* Answers of one schedule with up to MaxPicks picks of any kind: classes of the
\* courses, invented class numbers, a class of a course not asked for.
PickAnswers(cs) ==
    {[kind |-> "array", schedules |-> <<[scheduleNumber |-> 1, classes |-> picks]>>] :
        picks \in SeqsOf(AnswerEntries(cs), 0, MaxPicks)}

InitPicks ==
    /\ courses \in {PinnedCatalog, LabCatalog, NoClassCatalog}
    /\ service = "none" /\ genPc = "idle" /\ answer = NoAnswer
    /\ schedules = << >> /\ errorMessage = ""
    /\ earlier = NoCall /\ ScheduleIdle
    /\ OverlapIdle /\ SectionsIdle /\ OfferingsIdle

\* generateSchedules of one of the services, from the call to its end, the
\* model answering with one schedule
CallWithPicks ==
    /\ genPc = "idle"
    /\ \E name \in {"gemini", "ollama", "openrouter2"},
          apiKey \in BOOLEAN, response \in PickAnswers(courses) :
          /\ service' = name
          /\ IF GuardMessage(courses, name, apiKey) # ""
             THEN /\ answer' = NoAnswer
                  /\ Finish(Thrown(GuardMessage(courses, name, apiKey)))
             ELSE /\ answer' = response
                  /\ Finish(HandleResponse(name, courses, response))
    /\ UNCHANGED <<courses, earlier, overlapVars, sectionsVars, scheduleVars, searchVars, termVars, pageVars>>

SpecPicks == InitPicks /\ [][CallWithPicks]_vars

-----------------------------------------------------------------------------
(* searchClassesAllPages (course-offerings service): page after page *)

pageSize == 50

\* A class of a response. The n-th class of a "lectures" response is an Athens
\* lecture with a meeting time; in a "mixed" response every second class is a
\* lab, every third is in Chillicothe and every fifth has no meeting and TBA
\* for its times.
ResultClass(kind, n) ==
    [classNumber |-> n,
     component   |-> IF kind = "mixed" /\ n % 2 = 0 THEN "LAB"
                     ELSE IF n % 4 = 1 THEN "LEC"
                     ELSE IF n % 4 = 3 THEN "LECTURE" ELSE "Lecture",
     location    |-> IF kind = "mixed" /\ n % 3 = 0 THEN <<"Chillicothe", "Campus">>
                     ELSE <<"Athens", "Campus">>,
     meetings    |-> IF kind = "mixed" /\ n % 5 = 0 THEN << >>
                     ELSE <<MeetingOf(Block(<<(<<"M">>)>>, 540, 600))>>,
     times       |-> IF kind = "mixed" /\ n % 5 = 0 THEN TBA ELSE << >>]

\* What searchClasses gives for a page: a response with 0, 1 or pageSize
\* results and its counts object (campus and number, in the object's order), or
\* an Error.
PageResponses(page) ==
    {[ok |-> TRUE,
      results |-> [k \in 1..len |-> ResultClass(kind, (page - 1) * pageSize + k)],
      counts |-> counts] :
        kind \in {"lectures", "mixed"}, len \in {0, 1, pageSize},
        counts \in {<< >>,
                    <<[campus |-> "ATHN", count |-> 51]>>,
                    <<[campus |-> "ATHN", count |-> 120]>>,
                    <<[campus |-> "CHIL", count |-> 75], [campus |-> "ATHN", count |-> 0]>>}}
    \cup {[ok |-> FALSE, message |-> "Failed to search classes: Network error"]}

\* hasValidTime of the search filters: the first meeting has a start and an end
\* time, or the times field is not empty, blank or 'TBA'.
HasValidTime(cls) ==
    \/ /\ cls.meetings # << >>
       /\ NotBlank(cls.meetings[1].startTime)
       /\ NotBlank(cls.meetings[1].endTime)
    \/ NotBlank(cls.times) /\ cls.times # TBA

\* The filter of searchClassesAllPages on a class, then the caller's filterFn
\* ("odd": the caller keeps the classes with an odd class number).
IsMatching(cls, args) ==
    LET isLecture == cls.component \in {"LEC", "Lecture"} \/ LowerCase(cls.component) = "lecture"
        isAthens == \/ \E i \in 1..Len(cls.location) : cls.location[i] = "Athens"
                    \/ \E i \in 1..Len(args.campuses) : args.campuses[i] = "ATHN"
    IN  /\ isLecture /\ isAthens /\ HasValidTime(cls)
        /\ args.filterFn = "odd" => cls.classNumber % 2 = 1

\* response.counts['ATHN'] || Object.values(response.counts)[0] || 0
TotalCount(counts) ==
    LET athn == {i \in 1..Len(counts) : counts[i].campus = "ATHN" /\ counts[i].count # 0}
    IN  IF athn # {} THEN counts[CHOOSE i \in athn : TRUE].count
        ELSE IF counts # << >> THEN counts[1].count
        ELSE 0

\* A loop that goes on while the count says there is more, full page or not.
HasMoreByCount(response, page) ==
    (page - 1) * pageSize + Len(response.results) < TotalCount(response.counts)

\* hasMore after the page's response
HasMore(response, page) ==
    /\ Len(response.results) = pageSize
    /\ (page - 1) * pageSize + Len(response.results) < TotalCount(response.counts)

\* A catch block that gives up the page and returns what was gathered.
PageFailureSwallowed(page, message) == [pc |-> "returned", searchError |-> ""]

\* The catch block of the loop: the Error thrown for a page that failed
PageFailure(page, message) ==
    [pc |-> "threw",
     searchError |-> "Failed to fetch page " \o ToString(page) \o ": " \o message]

InitSearch ==
    /\ searchArgs \in [campuses : {<<"ATHN">>, <<"CHIL">>}, filterFn : {"none", "odd"}]
    /\ searchPc = "fetching" /\ currentPage = 1 /\ hasMore = TRUE
    /\ allClasses = << >> /\ fetched = << >> /\ searchError = ""
    /\ termsResponse = [ok |-> FALSE] /\ termPc = "off" /\ termResult = [pc |-> "off"]
    /\ pageCourses = << >> /\ selectedCourses = << >>
    /\ searching = << >> /\ lastAdd = "off"
    /\ OverlapIdle /\ SectionsIdle /\ GenIdle /\ earlier = NoCall /\ ScheduleIdle

\* One turn of the while loop: searchClasses for currentPage answers or fails;
\* when hasMore is false after it, the loop ends and allClasses is returned.
FetchPage ==
    /\ searchPc = "fetching"
    /\ \E response \in PageResponses(currentPage) :
          /\ fetched' = Append(fetched, [page |-> currentPage, response |-> response])
          /\ IF response.ok
             THEN /\ allClasses' = allClasses \o
                        SelectSeq(response.results, LAMBDA cls : IsMatching(cls, searchArgs))
                  /\ hasMore' = HasMore(response, currentPage)
                  /\ currentPage' = currentPage + 1
                  /\ searchPc' = IF hasMore' THEN "fetching" ELSE "returned"
                  /\ UNCHANGED searchError
             ELSE /\ searchPc' = PageFailure(currentPage, response.message).pc
                  /\ searchError' = PageFailure(currentPage, response.message).searchError
                  /\ UNCHANGED <<allClasses, hasMore, currentPage>>
    /\ UNCHANGED <<searchArgs, overlapVars, sectionsVars, scheduleVars, genVars, earlier, termVars, pageVars>>

SpecSearch == InitSearch /\ [][FetchPage]_vars

-----------------------------------------------------------------------------
(* getCurrentFallTerm (course-offerings service) *)

\* The terms endpoint answers with at most this many terms.
MaxTerms == 3

\* Terms of the API: strm, description and code, as their characters.
TermChoices ==
    {[strm |-> <<"2", "2", "5", "1">>, description |-> <<"F", "a", "l", "l", " ", "2", "0", "2", "5">>, code |-> <<"U", "G", "R", "D">>],
     [strm |-> <<"2", "2", "5", "5">>, description |-> <<"S", "p", "r", "i", "n", "g", " ", "2", "0", "2", "6">>, code |-> <<"U", "G", "R", "D">>],
     [strm |-> <<"2", "2", "4", "1">>, description |-> <<"A", "u", "t", "u", "m", "n", " ", "2", "0", "2", "4">>, code |-> <<"G", "R", "A", "D">>],
     [strm |-> <<"2", "2", "3", "7">>, description |-> <<"F", "A", "L", "L", " ", "2", "0", "2", "3">>, code |-> <<"U", "G", "R", "D">>],
     [strm |-> <<"2", "2", "4", "8">>, description |-> <<"S", "u", "m", "m", "e", "r", " ", "2", "0", "2", "5">>, code |-> <<"M", "E", "D">>],
     [strm |-> <<"2", "2", "6", "5">>, description |-> <<"W", "i", "n", "t", "e", "r", ",", " ", "F", "a", "l", "l", "b", "a", "c", "k", " ", "2", "0", "2", "6">>, code |-> <<"G", "R", "A", "D">>]}

\* A test that looks for 'fall' in the description as it is written.
IsFallTermAsWritten(termItem) ==
    \/ termItem.strm # << >> /\ termItem.strm[Len(termItem.strm)] = "1"
    \/ \E i \in 1..(Len(termItem.description) - 3) :
          SubSeq(termItem.description, i, i + 3) = <<"f", "a", "l", "l">>

\* termItem.strm.endsWith('1') || termItem.description.toLowerCase().includes('fall')
IsFallTerm(termItem) ==
    LET upper == <<"A", "B", "C", "D", "E", "F", "G", "H", "I", "J", "K", "L", "M", "N", "O", "P", "Q", "R", "S", "T", "U", "V", "W", "X", "Y", "Z">>
        lower == <<"a", "b", "c", "d", "e", "f", "g", "h", "i", "j", "k", "l", "m", "n", "o", "p", "q", "r", "s", "t", "u", "v", "w", "x", "y", "z">>
        ToLowerCase(str) ==
            [i \in 1..Len(str) |->
                IF \E k \in 1..Len(upper) : upper[k] = str[i]
                THEN lower[CHOOSE k \in 1..Len(upper) : upper[k] = str[i]]
                ELSE str[i]]
        Includes(str, sub) ==
            \E i \in 1..(Len(str) - Len(sub) + 1) : SubSeq(str, i, i + Len(sub) - 1) = sub
    IN  \/ termItem.strm # << >> /\ termItem.strm[Len(termItem.strm)] = "1"
        \/ Includes(ToLowerCase(termItem.description), <<"f", "a", "l", "l">>)

\* getCurrentFallTerm on the response of the terms endpoint: the value
\* returned, or the message of the Error the catch block throws (termsEndpoint
\* is "/data/terms" after the base URL, left empty here).
CurrentFallTerm(response) ==
    LET failed == "Failed to get current Fall term from /data/terms. Error: "
        availableTerms == response.terms
        found == [i \in 1..Len(availableTerms) |-> IsFallTerm(availableTerms[i])]
        fallTerm == availableTerms[FirstTrue(found)]
    IN  IF ~response.ok
        THEN [pc |-> "threw",
              message |-> failed \o "Failed to fetch terms: " \o response.statusText]
        ELSE IF FirstTrue(found) = 0
        THEN [pc |-> "threw", message |-> failed \o "No Fall term found in available terms"]
        ELSE [pc |-> "returned", message |-> "",
              termCode |-> fallTerm.strm \o <<":", ":">> \o fallTerm.code,
              term |-> fallTerm]

InitTerms ==
    /\ termsResponse \in
          {[ok |-> TRUE, terms |-> terms] : terms \in SeqsOf(TermChoices, 0, MaxTerms)}
              \cup {[ok |-> FALSE, statusText |-> "Internal Server Error"]}
    /\ termPc = "idle" /\ termResult = [pc |-> "idle"]
    /\ searchArgs = [campuses |-> << >>, filterFn |-> "none"]
    /\ searchPc = "off" /\ currentPage = 0 /\ hasMore = FALSE
    /\ allClasses = << >> /\ fetched = << >> /\ searchError = ""
    /\ pageCourses = << >> /\ selectedCourses = << >>
    /\ searching = << >> /\ lastAdd = "off"
    /\ OverlapIdle /\ SectionsIdle /\ GenIdle /\ earlier = NoCall /\ ScheduleIdle

\* getCurrentFallTerm, from the call to its end
GetCurrentFallTerm ==
    /\ termPc = "idle"
    /\ termResult' = CurrentFallTerm(termsResponse)
    /\ termPc' = termResult'.pc
    /\ UNCHANGED <<termsResponse, overlapVars, sectionsVars, scheduleVars, genVars, earlier,
                   searchVars, pageVars>>

SpecTerms == InitTerms /\ [][GetCurrentFallTerm]_vars

-----------------------------------------------------------------------------
(* The Course Search page (CourseSearchPage): the list of courses *)

MAX_COURSES == 4

\* The courses a search can find: five courses, and CS 2400 under another title.
FoundCourses ==
    {[subject |-> "CS", catalogNumber |-> "2400", title |-> "Data Structures"],
     [subject |-> "CS", catalogNumber |-> "2400", title |-> "Data Structures II"],
     [subject |-> "MATH", catalogNumber |-> "1500", title |-> "Calculus"],
     [subject |-> "HIST", catalogNumber |-> "1330", title |-> "World History"],
     [subject |-> "ART", catalogNumber |-> "1100", title |-> "Drawing"],
     [subject |-> "BIOS", catalogNumber |-> "1700", title |-> "Biology"]}

\* A handler that takes two courses for the same only when all their fields agree.
CourseAddByRecord(oldCourses, course) ==
    IF \E i \in 1..Len(oldCourses) : oldCourses[i] = course
    THEN [lastAdd |-> "rejected", courses |-> oldCourses]
    ELSE IF Len(oldCourses) >= MAX_COURSES
    THEN [lastAdd |-> "rejected", courses |-> oldCourses]
    ELSE [lastAdd |-> "added", courses |-> Append(oldCourses, course)]

\* handleCourseAdd on the courses it closed over: rejected, or the new list
CourseAdd(oldCourses, course) ==
    LET exists == \E i \in 1..Len(oldCourses) :
                      /\ oldCourses[i].subject = course.subject
                      /\ oldCourses[i].catalogNumber = course.catalogNumber
    IN  IF exists THEN [lastAdd |-> "rejected", courses |-> oldCourses]
        ELSE IF Len(oldCourses) >= MAX_COURSES
        THEN [lastAdd |-> "rejected", courses |-> oldCourses]
        ELSE [lastAdd |-> "added", courses |-> Append(oldCourses, course)]

\* The page is mounted: its courses are those of localStorage, none or the
\* three an earlier visit left there.
InitPage ==
    /\ selectedCourses \in
          {<< >>,
           <<[subject |-> "MATH", catalogNumber |-> "1500", title |-> "Calculus"],
             [subject |-> "CS", catalogNumber |-> "2400", title |-> "Data Structures"],
             [subject |-> "ART", catalogNumber |-> "1100", title |-> "Drawing"]>>}
    /\ pageCourses = selectedCourses
    /\ searching = << >> /\ lastAdd = "none"
    /\ searchArgs = [campuses |-> << >>, filterFn |-> "none"]
    /\ searchPc = "off" /\ currentPage = 0 /\ hasMore = FALSE
    /\ allClasses = << >> /\ fetched = << >> /\ searchError = ""
    /\ termsResponse = [ok |-> FALSE] /\ termPc = "off" /\ termResult = [pc |-> "off"]
    /\ OverlapIdle /\ SectionsIdle /\ GenIdle /\ earlier = NoCall /\ ScheduleIdle

\* CourseSearch.handleSearch up to its awaits: the search is under way, with
\* the onCourseAdd of this render; the input takes no other search meanwhile.
HandleSearch ==
    /\ searching = << >>
    /\ \E course \in FoundCourses :
          searching' = <<[courses |-> pageCourses, course |-> course]>>
    /\ UNCHANGED <<pageCourses, selectedCourses, lastAdd, overlapVars, sectionsVars, scheduleVars,
                   genVars, earlier, searchVars, termVars>>

\* The search ends and calls onCourseAdd: handleCourseAdd
HandleCourseAdd ==
    /\ searching # << >>
    /\ LET added == CourseAdd(searching[1].courses, searching[1].course)
       IN  /\ lastAdd' = added.lastAdd
           /\ IF added.lastAdd = "rejected"
              THEN UNCHANGED <<pageCourses, selectedCourses>>
              ELSE pageCourses' = added.courses /\ selectedCourses' = added.courses
    /\ searching' = << >>
    /\ UNCHANGED <<overlapVars, sectionsVars, scheduleVars, genVars, earlier, searchVars, termVars>>

\* The remove button of the course at an index: handleRemoveCourse
HandleRemoveCourse ==
    /\ \E index \in 1..Len(pageCourses) :
          LET newCourses == SubSeq(pageCourses, 1, index - 1)
                                \o SubSeq(pageCourses, index + 1, Len(pageCourses))
          IN  pageCourses' = newCourses /\ selectedCourses' = newCourses
    /\ UNCHANGED <<searching, lastAdd, overlapVars, sectionsVars, scheduleVars, genVars, earlier,
                   searchVars, termVars>>

SpecPage == InitPage /\ [][HandleSearch \/ HandleCourseAdd \/ HandleRemoveCourse]_vars

-----------------------------------------------------------------------------
(* The schedule pages (ScheduleGenerationPage, CombinedSchedulePage):          *)
(* generating, cancelling, leaving and coming back                             *)

MaxRequests == 3
MaxMounts == 2

Cancelled == "Generation cancelled by user."
PleaseAddCourses == "Please add courses first on the Course Search page."

\* The lists generateSchedules resolves with.
GeneratedLists ==
    {<< >>,
     <<[scheduleNumber |-> 1, classNumbers |-> <<101, 201>>]>>,
     <<[scheduleNumber |-> 1, classNumbers |-> <<102, 201>>]>>}

\* How the promise of generateSchedules settles.
Outcomes ==
    {[ok |-> TRUE, schedules |-> list] : list \in GeneratedLists}
    \cup {[ok |-> FALSE, name |-> "AbortError", message |-> "The operation was aborted."],
          [ok |-> FALSE, name |-> "Error",
           message |-> "Failed to generate schedules: HTTP error! status: 500"]}

\* What the rest of handleGenerateSchedules does when the request was not
\* aborted: the states it sets (a sequence holding the value, << >> when the
\* setter is not called) and localStorage after it.
Completion(outcome, items) ==
    IF outcome.ok
    THEN [setSchedules    |-> <<outcome.schedules>>,
          setError        |-> << >>,
          setIsGenerating |-> <<FALSE>>,
          localStorage    |-> [generatedSchedules      |-> <<outcome.schedules>>,
                               isGeneratingSchedules   |-> FALSE,
                               scheduleGenerationError |-> << >>]]
    ELSE [setSchedules    |-> << >>,
          setError        |-> <<outcome.message>>,
          setIsGenerating |-> <<FALSE>>,
          localStorage    |-> [items EXCEPT !.scheduleGenerationError = <<outcome.message>>,
                                            !.isGeneratingSchedules = FALSE]]

\* A continuation that never looks at the signal.
SettlementOfAny(aborted, outcome, items) == Completion(outcome, items)

\* The rest of handleGenerateSchedules after the await: try, catch and finally.
\* With an aborted signal a resolved call returns at once and a rejected one
\* only leaves the generating state.
Settlement(aborted, outcome, items) ==
    IF outcome.ok /\ aborted
    THEN [setSchedules |-> << >>, setError |-> << >>, setIsGenerating |-> << >>,
          localStorage |-> items]
    ELSE IF ~outcome.ok /\ (aborted \/ outcome.name = "AbortError")
    THEN [setSchedules |-> << >>, setError |-> << >>, setIsGenerating |-> <<FALSE>>,
          localStorage |-> [items EXCEPT !.isGeneratingSchedules = FALSE]]
    ELSE Completion(outcome, items)

InitSchedules ==
    /\ selectedCourses \in
          {<< >>,
           <<[subject |-> "MATH", catalogNumber |-> "1500", title |-> "Calculus"],
             [subject |-> "CS", catalogNumber |-> "2400", title |-> "Data Structures"]>>}
    /\ pageCourses = << >> /\ searching = << >> /\ lastAdd = "off"
    /\ mounted = FALSE /\ instance = 0 /\ isGenerating = FALSE /\ error = ""
    /\ pageSchedules = << >> /\ abortControllerRef = 0
    /\ localStorage = NoItems /\ requests = << >> /\ courseSelections = {}
    /\ searchArgs = [campuses |-> << >>, filterFn |-> "none"]
    /\ searchPc = "off" /\ currentPage = 0 /\ hasMore = FALSE
    /\ allClasses = << >> /\ fetched = << >> /\ searchError = ""
    /\ termsResponse = [ok |-> FALSE] /\ termPc = "off" /\ termResult = [pc |-> "off"]
    /\ OverlapIdle /\ SectionsIdle /\ GenIdle /\ earlier = NoCall

\* The page mounts: the load effect reads localStorage, then the save effects
\* of the render with the loaded state run.
MountPage ==
    /\ ~mounted /\ instance < MaxMounts
    /\ mounted' = TRUE /\ instance' = instance + 1
    /\ abortControllerRef' = 0
    /\ pageCourses' = selectedCourses
    /\ LET saved == localStorage.generatedSchedules
           savedError == localStorage.scheduleGenerationError
           restored == localStorage.isGeneratingSchedules /\ saved = << >>
       IN  /\ pageSchedules' = IF saved # << >> THEN saved[1] ELSE << >>
           /\ isGenerating' = restored
           /\ error' = IF savedError # << >> THEN savedError[1] ELSE ""
           /\ localStorage' = [localStorage EXCEPT !.isGeneratingSchedules = restored]
    /\ UNCHANGED <<requests, courseSelections, selectedCourses, searching, lastAdd,
                   overlapVars, sectionsVars, genVars, earlier, searchVars, termVars>>

\* The user goes to another page: the cleanup aborts the request whose
\* controller the ref holds, and the states of the instance are gone.
UnmountPage ==
    /\ mounted
    /\ requests' = IF abortControllerRef # 0 /\ requests[abortControllerRef].abortedBy = "none"
                   THEN [requests EXCEPT ![abortControllerRef].abortedBy = "unmount"]
                   ELSE requests
    /\ mounted' = FALSE
    /\ isGenerating' = FALSE /\ error' = "" /\ pageSchedules' = << >>
    /\ abortControllerRef' = 0 /\ pageCourses' = << >>
    /\ UNCHANGED <<instance, localStorage, courseSelections, selectedCourses, searching, lastAdd,
                   overlapVars, sectionsVars, genVars, earlier, searchVars, termVars>>

\* The user reloads the page: the document and its requests are gone, nothing
\* of the page runs any more, localStorage stays.
ReloadPage ==
    /\ mounted
    /\ requests' = [r \in 1..Len(requests) |->
                       IF requests[r].status = "pending"
                       THEN [requests[r] EXCEPT !.status = "lost"] ELSE requests[r]]
    /\ mounted' = FALSE
    /\ isGenerating' = FALSE /\ error' = "" /\ pageSchedules' = << >>
    /\ abortControllerRef' = 0 /\ pageCourses' = << >>
    /\ UNCHANGED <<instance, localStorage, courseSelections, selectedCourses, searching, lastAdd,
                   overlapVars, sectionsVars, genVars, earlier, searchVars, termVars>>

\* handleGenerateSchedules up to its await; the button shows while the page is
\* not generating.
HandleGenerateSchedules ==
    /\ mounted /\ ~isGenerating /\ Len(requests) < MaxRequests
    /\ IF pageCourses = << >>
       THEN /\ error' = PleaseAddCourses
            /\ localStorage' = [localStorage EXCEPT
                                   !.scheduleGenerationError = <<PleaseAddCourses>>]
            /\ UNCHANGED <<requests, abortControllerRef, isGenerating, pageSchedules>>
       ELSE /\ requests' = Append(requests, [instance |-> instance, abortedBy |-> "none",
                                             status |-> "pending"])
            /\ abortControllerRef' = Len(requests) + 1
            /\ isGenerating' = TRUE /\ error' = "" /\ pageSchedules' = << >>
            /\ localStorage' = [generatedSchedules      |-> << >>,
                                isGeneratingSchedules   |-> TRUE,
                                scheduleGenerationError |-> << >>]
    /\ UNCHANGED <<mounted, instance, courseSelections, pageCourses, selectedCourses, searching,
                   lastAdd, overlapVars, sectionsVars, genVars, earlier, searchVars, termVars>>

\* handleCancelGeneration; the button shows while the page is generating.
HandleCancelGeneration ==
    /\ mounted /\ isGenerating
    /\ requests' = IF abortControllerRef # 0
                   THEN [requests EXCEPT ![abortControllerRef].abortedBy = "cancel"]
                   ELSE requests
    /\ abortControllerRef' = 0
    /\ isGenerating' = FALSE /\ error' = Cancelled
    /\ localStorage' = [localStorage EXCEPT !.isGeneratingSchedules = FALSE,
                                            !.scheduleGenerationError = <<Cancelled>>]
    /\ UNCHANGED <<mounted, instance, pageSchedules, courseSelections, pageCourses,
                   selectedCourses, searching, lastAdd,
                   overlapVars, sectionsVars, genVars, earlier, searchVars, termVars>>

\* The promise of a request settles and the rest of handleGenerateSchedules
\* runs. The setters act on the instance that called, while it is mounted;
\* localStorage is written in any case; the save effects of the next render
\* write what the handler wrote.
SettleRequest ==
    /\ \E r \in 1..Len(requests), outcome \in Outcomes :
          /\ requests[r].status = "pending"
          /\ ~outcome.ok /\ outcome.name = "AbortError" => requests[r].abortedBy # "none"
          /\ requests' = [requests EXCEPT ![r].status = "settled"]
          /\ LET done == Settlement(requests[r].abortedBy # "none", outcome, localStorage)
                 live == mounted /\ requests[r].instance = instance
             IN  /\ localStorage' = done.localStorage
                 /\ pageSchedules' = IF live /\ done.setSchedules # << >>
                                     THEN done.setSchedules[1] ELSE pageSchedules
                 /\ error' = IF live /\ done.setError # << >> THEN done.setError[1] ELSE error
                 /\ isGenerating' = IF live /\ done.setIsGenerating # << >>
                                    THEN done.setIsGenerating[1] ELSE isGenerating
                 /\ abortControllerRef' = IF live THEN 0 ELSE abortControllerRef
    /\ UNCHANGED <<mounted, instance, courseSelections, pageCourses, selectedCourses, searching,
                   lastAdd, overlapVars, sectionsVars, genVars, earlier, searchVars, termVars>>

\* handleClearSchedules; the button shows with the schedules.
HandleClearSchedules ==
    /\ mounted /\ pageSchedules # << >>
    /\ pageSchedules' = << >> /\ error' = ""
    /\ localStorage' = [localStorage EXCEPT !.generatedSchedules = << >>,
                                            !.scheduleGenerationError =
                                                IF error # "" THEN << >> ELSE @]
    /\ UNCHANGED <<mounted, instance, isGenerating, abortControllerRef, requests,
                   courseSelections, pageCourses, selectedCourses, searching, lastAdd,
                   overlapVars, sectionsVars, genVars, earlier, searchVars, termVars>>

SpecSchedules ==
    InitSchedules /\ [][\/ MountPage \/ UnmountPage \/ ReloadPage
                        \/ HandleGenerateSchedules \/ HandleCancelGeneration
                        \/ SettleRequest \/ HandleClearSchedules]_vars

\* A request that is pending settles in the end.
SpecSchedulesFair == SpecSchedules /\ WF_vars(SettleRequest)

-----------------------------------------------------------------------------
(* CombinedSchedulePage: the classes selected for each course, and the courses *)
(* handed to generateSchedules                                                 *)

\* `${subject}-${catalogNumber}`
GetCourseKey(subject, catalogNumber) == subject \o "-" \o CatalogString(catalogNumber)

\* courseSelections.get(courseKey) || new Set()
GetSelectedClassesForCourse(selections, courseKey) ==
    {pair[2] : pair \in {s \in selections : s[1] = courseKey}}

\* The selection of every class of every course (auto-select, Select All).
AllClassesSelected(cs) ==
    UNION {{<<GetCourseKey(cs[i].subject, cs[i].catalogNumber), cs[i].classes[c].classNumber>> :
               c \in 1..Len(cs[i].classes)} : i \in 1..Len(cs)}

\* A filtering that keeps the courses left without a class.
CoursesWithTheirSelectedClasses(cs, selections) ==
    [i \in 1..Len(cs) |->
        [cs[i] EXCEPT !.classes =
            SelectSeq(cs[i].classes,
                      LAMBDA cls : cls.classNumber \in GetSelectedClassesForCourse(
                                      selections, GetCourseKey(cs[i].subject, cs[i].catalogNumber)))]]

\* coursesWithSelectedClasses: every course with its selected classes only,
\* without the courses that have none.
CoursesWithSelectedClasses(cs, selections) ==
    SelectSeq([i \in 1..Len(cs) |->
                  [cs[i] EXCEPT !.classes =
                      SelectSeq(cs[i].classes,
                                LAMBDA cls : cls.classNumber \in GetSelectedClassesForCourse(
                                    selections, GetCourseKey(cs[i].subject, cs[i].catalogNumber)))]],
              LAMBDA course : course.classes # << >>)

\* The page is mounted with no course, or with courses of which every class is
\* selected.
InitSelection ==
    /\ pageCourses \in {<< >>, PinnedCatalog, LabCatalog, FixedCatalog}
    /\ selectedCourses = pageCourses
    /\ courseSelections = AllClassesSelected(pageCourses)
    /\ searching = << >> /\ lastAdd = "off"
    /\ mounted = TRUE /\ instance = 1 /\ isGenerating = FALSE /\ error = ""
    /\ pageSchedules = << >> /\ abortControllerRef = 0
    /\ localStorage = NoItems /\ requests = << >>
    /\ searchArgs = [campuses |-> << >>, filterFn |-> "none"]
    /\ searchPc = "off" /\ currentPage = 0 /\ hasMore = FALSE
    /\ allClasses = << >> /\ fetched = << >> /\ searchError = ""
    /\ termsResponse = [ok |-> FALSE] /\ termPc = "off" /\ termResult = [pc |-> "off"]
    /\ OverlapIdle /\ SectionsIdle /\ GenIdle /\ earlier = NoCall

\* handleToggleClass, for the checkbox of a class of a course
HandleToggleClass ==
    /\ mounted
    /\ \E i \in 1..Len(pageCourses) : \E c \in 1..Len(pageCourses[i].classes) :
          LET pair == <<GetCourseKey(pageCourses[i].subject, pageCourses[i].catalogNumber),
                        pageCourses[i].classes[c].classNumber>>
          IN  courseSelections' = IF pair \in courseSelections
                                  THEN courseSelections \ {pair}
                                  ELSE courseSelections \cup {pair}
    /\ UNCHANGED <<mounted, instance, isGenerating, error, pageSchedules, abortControllerRef,
                   localStorage, requests, pageVars,
                   overlapVars, sectionsVars, genVars, earlier, searchVars, termVars>>

\* handleSelectAll
HandleSelectAll ==
    /\ mounted
    /\ courseSelections' = AllClassesSelected(pageCourses)
    /\ UNCHANGED <<mounted, instance, isGenerating, error, pageSchedules, abortControllerRef,
                   localStorage, requests, pageVars,
                   overlapVars, sectionsVars, genVars, earlier, searchVars, termVars>>

\* handleDeselectAll
HandleDeselectAll ==
    /\ mounted
    /\ courseSelections' = {}
    /\ UNCHANGED <<mounted, instance, isGenerating, error, pageSchedules, abortControllerRef,
                   localStorage, requests, pageVars,
                   overlapVars, sectionsVars, genVars, earlier, searchVars, termVars>>

\* handleToggleCourseSelection, for the checkbox of a course: all of its classes
\* when not all are selected, none when all are
HandleToggleCourseSelection ==
    /\ mounted
    /\ \E i \in 1..Len(pageCourses) :
          LET courseKey == GetCourseKey(pageCourses[i].subject, pageCourses[i].catalogNumber)
              ofCourse == {<<courseKey, pageCourses[i].classes[c].classNumber>> :
                              c \in 1..Len(pageCourses[i].classes)}
              others == {s \in courseSelections : s[1] # courseKey}
          IN  courseSelections' = IF ofCourse \subseteq courseSelections
                                  THEN others ELSE others \cup ofCourse
    /\ UNCHANGED <<mounted, instance, isGenerating, error, pageSchedules, abortControllerRef,
                   localStorage, requests, pageVars,
                   overlapVars, sectionsVars, genVars, earlier, searchVars, termVars>>

\* handleGenerateSchedules of CombinedSchedulePage up to its await, with the
\* save effect of the error; the handler's own guards are modelled, the button
\* that calls it is disabled while no class is selected.
HandleGenerateSelected ==
    /\ mounted /\ ~isGenerating /\ requests = << >>
    /\ LET coursesWithSelectedClasses == CoursesWithSelectedClasses(pageCourses, courseSelections)
           refused == IF pageCourses = << >> THEN "Please add courses first."
                      ELSE IF Cardinality(courseSelections) = 0
                           THEN "Please select at least one class from the courses."
                      ELSE IF coursesWithSelectedClasses = << >>
                           THEN "No courses with selected classes found."
                      ELSE ""
       IN  IF refused # ""
           THEN /\ error' = refused
                /\ localStorage' = [localStorage EXCEPT !.scheduleGenerationError = <<refused>>]
                /\ UNCHANGED <<requests, abortControllerRef, isGenerating, pageSchedules>>
           ELSE /\ requests' = <<[instance |-> instance, abortedBy |-> "none", status |-> "pending",
                                  courses |-> coursesWithSelectedClasses]>>
                /\ abortControllerRef' = 1
                /\ isGenerating' = TRUE /\ error' = "" /\ pageSchedules' = << >>
                /\ localStorage' = [generatedSchedules      |-> << >>,
                                    isGeneratingSchedules   |-> TRUE,
                                    scheduleGenerationError |-> << >>]
    /\ UNCHANGED <<mounted, instance, courseSelections, pageVars,
                   overlapVars, sectionsVars, genVars, earlier, searchVars, termVars>>

SpecSelection ==
    InitSelection /\ [][\/ HandleToggleClass \/ HandleSelectAll \/ HandleDeselectAll
                        \/ HandleToggleCourseSelection \/ HandleGenerateSelected]_vars

-----------------------------------------------------------------------------
(* Properties of the calls: rejected input, fixed courses, order, repetition *)

\* The course list is empty or holds a course without a class.
Malformed(cs) == cs = << >> \/ \E i \in 1..Len(cs) : cs[i].classes = << >>

\* C11: a call with an empty course list or with a course that has no class
\* fails before any request goes out: it is never waiting for an answer and
\* never got one.
C11_MalformedInputFailsFast ==
    Malformed(courses) /\ genPc # "idle" =>
        genPc = "threw" /\ answer = NoAnswer

\* Every course has exactly one candidate class.
AllFixed(cs) == cs # << >> /\ \A i \in 1..Len(cs) : Len(cs[i].classes) = 1

\* C12: when every course has exactly one candidate and that one combination is
\* conflict-free, what generateSchedules returns is exactly one schedule, the
\* one with those classes.
C12_AllFixedGivesOneSchedule ==
    Returned /\ AllFixed(courses) /\ ConflictFreeCombinations(courses) # {} =>
        /\ Len(schedules) = 1
        /\ \A p \in ConflictFreeCombinations(courses) :
              Picks(courses, schedules[1]) = PicksOfCombination(p)

\* Both calls ran the same service to its end on the same answer of the model.
SameAnswerTwice ==
    /\ earlier # NoCall /\ genPc \in {"returned", "threw"}
    /\ earlier.service = service /\ earlier.answer = answer

\* C13: the order of the courses in the list does not change the set of
\* schedules returned: called with the same courses in another order, on the
\* same answer of the model, a service returns schedules with the same sets of
\* class numbers.
C13_OrderDoesNotChangeSchedules ==
    SameAnswerTwice /\ Returned /\ earlier.pc = "returned" =>
        LET PickSets(ss) ==
                {{ss[n].classes[k].classNumber : k \in 1..Len(ss[n].classes)} :
                    n \in 1..Len(ss)}
        IN  PickSets(schedules) = PickSets(earlier.schedules)

C15_NumberedInOrder ==
    Returned => \A k \in 1..Len(schedules) : schedules[k].scheduleNumber = k

\* The block has no day, or does not start before it ends.
IllFormed(block) == block.days = << >> \/ block.start >= block.end

\* C16: a block that does not start before it ends, or that has no day, is
\* rejected: timesOverlap never ends with an answer, conflicting or not, for
\* such a block.
C16_IllFormedBlockRejected ==
    overlapPc = "done" => ~IllFormed(blockA) /\ ~IllFormed(blockB)

-----------------------------------------------------------------------------
(* Properties of the course-offerings service *)

\* The matching classes of the first n pages fetched, page after page.
RECURSIVE MatchingOfPages(_)
MatchingOfPages(n) ==
    IF n = 0 THEN << >>
    ELSE MatchingOfPages(n - 1) \o
            SelectSeq(fetched[n].response.results, LAMBDA cls : IsMatching(cls, searchArgs))

C18_FailedPageFailsTheSearch ==
    \A i \in 1..Len(fetched) :
        ~fetched[i].response.ok =>
            /\ i = Len(fetched)
            /\ searchPc = "threw"
            /\ searchError = "Failed to fetch page " \o ToString(fetched[i].page) \o ": "
                                \o fetched[i].response.message

\* Page 2 failed after page 1 had given classes.
C18_SecondPageFailed ==
    /\ searchPc = "threw" /\ Len(fetched) = 2 /\ allClasses # << >>
    /\ searchError = "Failed to fetch page 2: Failed to search classes: Network error"

\* C19: getCurrentFallTerm returns the first term, in the order of the API's
\* answer, whose strm ends in '1' or whose description contains 'fall' in any
\* case, with termCode = strm + '::' + code; when the answer holds no such
\* term it fails with a message that contains 'No Fall term found'.
C19_FirstFallTermOrError ==
    termPc # "idle" /\ termsResponse.ok =>
        LET terms == termsResponse.terms
            \* the descriptions that contain 'fall', in small or capital letters
            fallDescriptions ==
                {<<"F", "a", "l", "l", " ", "2", "0", "2", "5">>,
                 <<"F", "A", "L", "L", " ", "2", "0", "2", "3">>,
                 <<"W", "i", "n", "t", "e", "r", ",", " ", "F", "a", "l", "l", "b", "a", "c", "k", " ", "2", "0", "2", "6">>}
            fall == {i \in 1..Len(terms) :
                        \/ terms[i].strm[Len(terms[i].strm)] = "1"
                        \/ terms[i].description \in fallDescriptions}
            first == CHOOSE i \in fall : \A j \in fall : i <= j
        IN  IF fall = {}
            THEN /\ termPc = "threw"
                 /\ \E before \in {"Failed to get current Fall term from /data/terms. Error: "} :
                       termResult.message = before \o "No Fall term found" \o " in available terms"
            ELSE /\ termPc = "returned"
                 /\ termResult.term = terms[first]
                 /\ termResult.termCode = terms[first].strm \o <<":", ":">> \o terms[first].code

\* The term returned is the second of three, found by 'FALL' in its
\* description, with another fall term after it.
C19_SecondTermByDescription ==
    /\ termPc = "returned" /\ Len(termsResponse.terms) = 3
    /\ termResult.term = termsResponse.terms[2]
    /\ termResult.term.strm = <<"2", "2", "3", "7">>
    /\ termsResponse.terms[3].strm = <<"2", "2", "5", "1">>

\* C20: after any sequence of adds and removes the list of the Course Search
\* page holds at most 4 courses, no two of them with the same subject and
\* catalog number; an add that is rejected leaves the list and localStorage's
\* 'selectedCourses' as they were.
C20_AtMostFourNoTwoAlike ==
    /\ [](/\ Len(pageCourses) <= 4
          /\ \A i, j \in 1..Len(pageCourses) :
                /\ pageCourses[i].subject = pageCourses[j].subject
                /\ pageCourses[i].catalogNumber = pageCourses[j].catalogNumber
                => i = j)
    /\ [][HandleCourseAdd /\ lastAdd' = "rejected" =>
              UNCHANGED <<pageCourses, selectedCourses>>]_vars

\* An add was rejected while the list holds four courses.
C20_AddRejectedWithFourCourses ==
    lastAdd = "rejected" /\ Len(pageCourses) = 4 /\ selectedCourses = pageCourses

-----------------------------------------------------------------------------
(* Properties of the schedules returned: order, duplicates, completeness *)

\* C21: the first schedule of a non-empty result is the first conflict-free
\* combination in depth-first, first-candidate-first order: the feasible
\* combination whose candidate positions, course by course in input order,
\* are least.
C21_FirstScheduleIsFirstCombination ==
    Returned /\ schedules # << >> =>
        LET Position(q, i) == FindClass(courses[i], q[i])
            Before(q, r) ==
                \E k \in 1..Len(courses) :
                    /\ \A j \in 1..(k - 1) : Position(q, j) = Position(r, j)
                    /\ Position(q, k) < Position(r, k)
        IN  \E q \in ConflictFreeCombinations(courses) :
                /\ \A r \in ConflictFreeCombinations(courses) : ~Before(r, q)
                /\ Picks(courses, schedules[1]) = PicksOfCombination(q)

\* C22: the duplicate filter (second OpenRouter version and Ollama) takes two
\* schedules for the same exactly when they pick the same section for every
\* course: of the schedules the model answered, one is dropped only when an
\* earlier one has the same pick for every course, so as many schedules are
\* returned as the answer has different assignments of sections to courses,
\* also when two courses use the same section numbers.
C22_DroppedOnlyWhenSamePicks ==
    genPc = "returned" /\ service \in {"ollama", "openrouter2"} /\ answer.kind = "array" =>
        LET PicksOfAnswer(n) ==
                {<<answer.schedules[n].classes[k].subject,
                   answer.schedules[n].classes[k].catalogNumber,
                   answer.schedules[n].classes[k].classNumber>> :
                     k \in 1..Len(answer.schedules[n].classes)}
        IN  Len(schedules) = Cardinality({PicksOfAnswer(n) : n \in 1..Len(answer.schedules)})

\* C23: in the Ollama service, for input courses with distinct subject and
\* catalog number, every schedule returned holds exactly one class of each
\* input course that has a class, and no other class, whatever the model
\* answered.
C23_OllamaOneClassOfEachCourse ==
    /\ Returned /\ service = "ollama"
    /\ \A i, j \in 1..Len(courses) :
           i # j => <<courses[i].subject, courses[i].catalogNumber>>
                        # <<courses[j].subject, courses[j].catalogNumber>>
    => \A n \in 1..Len(schedules) :
           LET classes == schedules[n].classes
               WithClasses == {i \in 1..Len(courses) : courses[i].classes # << >>}
               ClassesOf(i) ==
                   {k \in 1..Len(classes) :
                       \E c \in 1..Len(courses[i].classes) :
                           /\ courses[i].classes[c].classNumber = classes[k].classNumber
                           /\ courses[i].classes[c].subject = classes[k].subject}
           IN  /\ Len(classes) = Cardinality(WithClasses)
               /\ \A i \in WithClasses : Cardinality(ClassesOf(i)) = 1

\* C24: a class the catalog search filter accepts (its first meeting has a start
\* and an end time, or its times field is neither blank nor 'TBA') is accepted
\* by the time extraction of generateSchedules; a class the filter rejects makes
\* generateSchedules (services/gemini.service.ts and the Ollama service) throw
\* before a request is sent: the 'missing required time information' error of
\* that class, or, without an API key, the API key error that is checked first.
C24_FilterAgreesWithTimeExtraction ==
    genPc # "idle" =>
        LET Rejected == {k \in 1..Len(courses[1].classes) : ~HasValidTime(courses[1].classes[k])}
            MissingTime(k) ==
                "Class HIST 1330 #" \o ToString(courses[1].classes[k].classNumber)
                    \o " is missing required time information"
        IN  /\ Rejected = {} => \A k \in 1..Len(courses[1].classes) : errorMessage # MissingTime(k)
            /\ Rejected # {} /\ service \in {"gemini", "ollama"} =>
                   /\ genPc = "threw" /\ answer = NoAnswer
                   /\ errorMessage \in {MissingTime(k) : k \in Rejected} \cup {ApiKeyRequired}

\* C24 as the sentence has it: a class the filter rejects makes generateSchedules
\* throw its 'missing required time information' error, whatever the service
\* and the API key.
C24_RejectedClassAlwaysMissingTime ==
    genPc # "idle" =>
        LET Rejected == {k \in 1..Len(courses[1].classes) : ~HasValidTime(courses[1].classes[k])}
        IN  Rejected # {} =>
               /\ genPc = "threw" /\ answer = NoAnswer
               /\ \E k \in Rejected :
                      errorMessage = "Class HIST 1330 #" \o ToString(courses[1].classes[k].classNumber)
                                         \o " is missing required time information"

\* A class with no time made the Gemini service throw its missing-time error.
C24_MissingTimeThrown ==
    /\ genPc = "threw" /\ service = "gemini"
    /\ ~HasValidTime(courses[1].classes[2])
    /\ errorMessage = "Class HIST 1330 #302 is missing required time information"

\* C29: every class of every schedule the OpenRouter services return is a class
\* of an input course, with its class number, subject and title; in
\* services/gemini.service.ts a pick of the model that matches no input course
\* (by subject and catalog number) is dropped, a pick whose class number the
\* matched course does not have is replaced by that course's first class, and
\* every other pick is returned as it is, in the model's order.
C29_OnlyClassesOfInputCourses ==
    Returned /\ service \in {"gemini", "openrouter2"} =>
        LET Numbers(i) == {courses[i].classes[c].classNumber : c \in 1..Len(courses[i].classes)}
            IsClassOfCourse(cls) ==
                \E i \in 1..Len(courses) : \E c \in 1..Len(courses[i].classes) :
                    /\ courses[i].classes[c].classNumber = cls.classNumber
                    /\ courses[i].classes[c].subject = cls.subject
                    /\ courses[i].classes[c].title = cls.title
            Matching(pick) ==
                {i \in 1..Len(courses) :
                    /\ courses[i].subject = pick.subject
                    /\ courses[i].catalogNumber[1] = pick.catalogNumber[1]}
            Kept(pick) ==
                IF Matching(pick) = {} THEN << >>
                ELSE LET i == CHOOSE m \in Matching(pick) : \A o \in Matching(pick) : m <= o
                     IN  IF pick.classNumber \in Numbers(i) THEN <<pick.classNumber>>
                         ELSE IF courses[i].classes = << >> THEN << >>
                         ELSE <<courses[i].classes[1].classNumber>>
        IN  /\ \A n \in 1..Len(schedules) : \A k \in 1..Len(schedules[n].classes) :
                   IsClassOfCourse(schedules[n].classes[k])
            /\ service = "gemini" =>
                   /\ Len(schedules) = Len(answer.schedules)
                   /\ \A n \in 1..Len(schedules) :
                          [k \in 1..Len(schedules[n].classes) |-> schedules[n].classes[k].classNumber]
                              = JoinAll([k \in 1..Len(answer.schedules[n].classes) |->
                                            Kept(answer.schedules[n].classes[k])])

\* The Gemini service returned a schedule in which an invented class number
\* of the model's answer is replaced and a class of an unknown course is gone.
C29_InventedReplacedUnknownDropped ==
    /\ Returned /\ service = "gemini" /\ courses = PinnedCatalog
    /\ Len(answer.schedules) = 1 /\ Len(answer.schedules[1].classes) = 2
    /\ answer.schedules[1].classes[1].subject = "ZZZ"
    /\ answer.schedules[1].classes[2].classNumber = 999
    /\ Len(schedules[1].classes) = 1

-----------------------------------------------------------------------------
(* Properties of the schedule pages *)

\* The requests the mounted page started that are pending and whose signal
\* nobody aborted.
OwnRequests ==
    {r \in 1..Len(requests) :
        /\ mounted /\ requests[r].instance = instance
        /\ requests[r].status = "pending" /\ requests[r].abortedBy = "none"}

\* C25: while a generation request that the user has not cancelled is in
\* flight, isGenerating is true and abortControllerRef holds the controller of
\* that request, so that Cancel aborts it; in every interleaving, also when an
\* earlier, cancelled request settles after a new generation has started.
C25_RequestInFlightCanBeCancelled ==
    \A r \in OwnRequests : isGenerating /\ abortControllerRef = r

\* C26: when a request that was cancelled settles (resolves or rejects), the
\* schedules state, the error message and the localStorage items
\* 'generatedSchedules' and 'scheduleGenerationError' stay as they are.
C26_CancelledSettlementChangesNothing ==
    [][\A r \in 1..Len(requests) :
          /\ Len(requests') = Len(requests)
          /\ requests[r].abortedBy = "cancel"
          /\ requests[r].status = "pending" /\ requests'[r].status = "settled"
          => /\ pageSchedules' = pageSchedules
             /\ error' = error
             /\ localStorage'.generatedSchedules = localStorage.generatedSchedules
             /\ localStorage'.scheduleGenerationError = localStorage.scheduleGenerationError]_vars

\* A cancelled request has settled and the page still shows the cancellation.
C26_CancelledRequestSettled ==
    /\ mounted /\ error = Cancelled
    /\ localStorage.scheduleGenerationError = <<Cancelled>>
    /\ \E r \in 1..Len(requests) :
          requests[r].abortedBy = "cancel" /\ requests[r].status = "settled"

\* C27: whenever a schedule page shows isGenerating true, a request that this
\* page started is in flight (restoring 'isGeneratingSchedules' on mount never
\* leaves a page generating with no request), and a page that is generating
\* leaves the generating state in the end.
C27_GeneratingMeansRequestInFlight ==
    /\ [](mounted /\ isGenerating =>
             \E r \in 1..Len(requests) :
                 requests[r].instance = instance /\ requests[r].status = "pending")
    /\ (mounted /\ isGenerating ~> ~(mounted /\ isGenerating))

\* C30: from the start of a generation until it succeeds the schedules state is
\* empty and localStorage has no 'generatedSchedules'; and whenever the
\* schedules state is not empty, 'generatedSchedules' holds exactly that list.
C30_NoSchedulesWhileGenerating ==
    /\ OwnRequests # {} => pageSchedules = << >> /\ localStorage.generatedSchedules = << >>
    /\ mounted /\ pageSchedules # << >> => localStorage.generatedSchedules = <<pageSchedules>>

\* C28: CombinedSchedulePage calls generateSchedules only with a course list
\* that is not empty, in which every course has a class and every class is a
\* class of that course on the page that is selected for it; when no class of
\* any course is selected the handler sets an error and sends no request; and
\* the courses of the page and the stored courses stay as they are.
C28_OnlySelectedClassesSent ==
    [][courseSelections' = courseSelections =>
          LET Selected(course, cls) ==
                  <<GetCourseKey(course.subject, course.catalogNumber), cls.classNumber>>
                      \in courseSelections
              NoneSelected ==
                  \A i \in 1..Len(pageCourses) : \A c \in 1..Len(pageCourses[i].classes) :
                      ~Selected(pageCourses[i], pageCourses[i].classes[c])
          IN  /\ pageCourses' = pageCourses /\ selectedCourses' = selectedCourses
              /\ NoneSelected => error' # "" /\ requests' = << >>
              /\ requests' # << >> =>
                    LET sent == requests'[1].courses
                    IN  /\ sent # << >>
                        /\ \A k \in 1..Len(sent) :
                              /\ sent[k].classes # << >>
                              /\ \E i \in 1..Len(pageCourses) :
                                    /\ sent[k].subject = pageCourses[i].subject
                                    /\ sent[k].catalogNumber = pageCourses[i].catalogNumber
                                    /\ \A c \in 1..Len(sent[k].classes) :
                                          /\ Selected(pageCourses[i], sent[k].classes[c])
                                          /\ \E d \in 1..Len(pageCourses[i].classes) :
                                                pageCourses[i].classes[d] = sent[k].classes[c]]_vars

\* generateSchedules was called without a course of the page and without a
\* class of another course, which were not selected.
C28_CourseAndClassLeftOut ==
    /\ requests # << >> /\ pageCourses = PinnedCatalog
    /\ Len(requests[1].courses) = 1
    /\ Len(requests[1].courses[1].classes) = 2

=============================================================================
